---- MODULE Spec2Model ----
(***************************************************************************)
(* The user-directory client's data-fetch layer (stage2/src/services/api): *)
(* an in-memory response cache, a table of in-flight requests used to      *)
(* deduplicate concurrent calls, and a retry loop with a backoff timer     *)
(* around the raw HTTP GET.  All code runs on one event loop: every action *)
(* below is one run-to-completion piece of code between two awaits.        *)
(***************************************************************************)
EXTENDS Integers, Sequences, FiniteSets, TLC

(***************************************************************************)
(* Bounds of the model.                                                    *)
(***************************************************************************)
\* total number of getUsers / getUserById invocations in a behaviour
MaxCalls == 2
\* getUserById is called with ids 1..MaxId
MaxId == 1
\* number of times the clock is advanced in a behaviour
MaxTicks == 2
\* largest maxRetries handed to retryRequest when it is exercised directly
MaxRetriesArg == 4
\* number of clock steps while retryRequest is exercised directly
MaxBackoffTicks == 6
\* number of getUsers invocations when getUsers is exercised on its own
MaxUsersCalls == 4

(***************************************************************************)
(* Program constants.                                                      *)
(***************************************************************************)
CACHE_DURATION == 5 * 60 * 1000
DEFAULT_MAX_RETRIES == 3
DEFAULT_DELAY == 1000
API_BASE_URL == "https://jsonplaceholder.typicode.com"
USERS == API_BASE_URL \o "/users"
NETWORK_ERROR == "Network error occurred"
UNKNOWN_ERROR == "An unknown error occurred"

(***************************************************************************)
(* Template-literal number formatting: `${n}` for a natural number.        *)
(***************************************************************************)
Digit(d) ==
    CASE d = 0 -> "0" [] d = 1 -> "1" [] d = 2 -> "2" [] d = 3 -> "3"
      [] d = 4 -> "4" [] d = 5 -> "5" [] d = 6 -> "6" [] d = 7 -> "7"
      [] d = 8 -> "8" [] d = 9 -> "9"

RECURSIVE NumToString(_)
NumToString(n) ==
    IF n < 10 THEN Digit(n) ELSE NumToString(n \div 10) \o Digit(n % 10)

(***************************************************************************)
(* JavaScript values that travel through the service.  A value is a record *)
(* [type, items]; JS null is the value of type "null".                     *)
(***************************************************************************)
Null == [type |-> "null", items |-> <<>>]
JArray(xs) == [type |-> "array", items |-> xs]
JObject(xs) == [type |-> "object", items |-> xs]
JNumber(n) == [type |-> "number", items |-> <<n>>]

\* JavaScript ToBoolean, as applied by `if (result.data)` and `if (cachedData)`
Truthy(v) ==
    CASE v.type = "null" -> FALSE
      [] v.type = "number" -> v.items[1] # 0
      [] OTHER -> TRUE

\* ApiResponse<T>: {data, error}; error is <<>> for null, <<msg>> for a string
NoError == <<>>
ApiResponse(d, e) == [data |-> d, error |-> e]
Failure(msg) == ApiResponse(Null, <<msg>>)

(***************************************************************************)
(* Keys and URLs of the two public operations.                             *)
(***************************************************************************)
Ids == 1..MaxId
UsersKey == "users"
\* the cache key of getUserById mutated: the key of the user list is used
UserKeyShared(id) == UsersKey

\* `user-${id}`
UserKey(id) == "user-" \o NumToString(id)
UserUrl(id) == USERS \o "/" \o NumToString(id)
Keys == {UsersKey} \cup {UserKey(id) : id \in Ids}

(***************************************************************************)
(* What the network can answer to one fetch(url): the promise rejects      *)
(* (with an Error carrying a message, or with a non-Error value), or it    *)
(* resolves to a response with a status and a body that parses or not.     *)
(***************************************************************************)
Rejected(isError, msg) ==
    [kind |-> "reject", isError |-> isError, message |-> msg,
     status |-> 0, parses |-> FALSE, body |-> Null]
Response(status, parses, body) ==
    [kind |-> "response", isError |-> FALSE, message |-> "",
     status |-> status, parses |-> parses, body |-> body]

\* Response.ok
Ok(status) == status >= 200 /\ status <= 299

PARSE_ERROR == "Unexpected end of JSON input"

\* How a piece of code completes: it returns value, or it throws a value
\* that is an Error with a message or something else.
Returned(value) ==
    [thrown |-> FALSE, isError |-> FALSE, message |-> "", value |-> value]
Thrown(isError, msg) ==
    [thrown |-> TRUE, isError |-> isError, message |-> msg, value |-> Null]

\* the try block mutated: a non-2xx response is not turned into an error
makeRequestTryNoStatusCheck(outcome) ==
    IF outcome.kind = "reject"
    THEN Thrown(outcome.isError, outcome.message)
    ELSE IF ~outcome.parses
    THEN Thrown(TRUE, PARSE_ERROR)
    ELSE Returned(ApiResponse(outcome.body, NoError))

\* the try block of makeRequest: `await fetch` rethrows a rejection, a
\* response that is not ok throws an Error naming the status, and
\* `await response.json()` rethrows the parse failure
makeRequestTry(outcome) ==
    IF outcome.kind = "reject"
    THEN Thrown(outcome.isError, outcome.message)
    ELSE IF ~Ok(outcome.status)
    THEN Thrown(TRUE, "HTTP error! status: " \o NumToString(outcome.status))
    ELSE IF ~outcome.parses
    THEN Thrown(TRUE, PARSE_ERROR)
    ELSE Returned(ApiResponse(outcome.body, NoError))

\* the catch clause mutated: what was caught is thrown again
makeRequestCatchRethrows(thrown) == thrown

\* the catch clause of makeRequest
makeRequestCatch(thrown) ==
    Returned(Failure(IF thrown.isError THEN thrown.message ELSE UNKNOWN_ERROR))

\* how makeRequest completes once fetch() has settled
makeRequestCompletion(outcome) ==
    LET tried == makeRequestTry(outcome) IN
    IF tried.thrown THEN makeRequestCatch(tried) ELSE tried

\* makeRequest, from the settlement of fetch() to the returned ApiResponse
makeRequest(outcome) == makeRequestCompletion(outcome).value

\* The bodies a 2xx answer for url can carry: the user list (full, or empty:
\* an empty array is truthy in JavaScript) or the user object of the id in
\* the url; or JSON null.
ErrorBody == JObject(<<>>)
OkBodies(url) ==
    IF url = USERS
    THEN {JArray(<<1, 2>>), JArray(<<>>), Null}
    ELSE {JObject(<<id>>) : id \in {i \in Ids : UserUrl(i) = url}} \cup {Null}

NetworkOutcomes(url) ==
    {Rejected(TRUE, "Network down"), Response(500, TRUE, ErrorBody)}
      \cup {Response(200, TRUE, b) : b \in OkBodies(url)}

\* The wider range used where one operation is exercised on its own: also a
\* rejection with a non-Error value, a rejection with an Error whose message
\* is empty, a 404, a 2xx whose body does not parse, and a 2xx whose body is
\* the number 0.
AllOutcomes(url) ==
    NetworkOutcomes(url)
      \cup {Rejected(FALSE, ""), Rejected(TRUE, ""),
            Response(404, TRUE, ErrorBody), Response(200, FALSE, Null),
            Response(200, TRUE, JNumber(0))}

(***************************************************************************)
(* State.                                                                  *)
(***************************************************************************)
VARIABLES
    now,              \* Date.now(), in ms
    ticks,            \* how often the clock was advanced (bounds the model)
    cache,            \* ApiService.cache: Map key -> [data, timestamp]
    pendingRequests,  \* ApiService.pendingRequests: Map key -> promise (an op)
    ops,              \* the retryRequest invocations, by promise identity
    calls,            \* the makeCachedRequest invocations, in call order
    afterClear,       \* keys not requested since the last clearCache()
    idleAtClear,      \* those of them with no pending request at that clearCache()
    lastClear,        \* the latest invalidation: "none", "all" or the key
    log,              \* first and latest attempt of the retryRequest exercised
                      \* on its own: what fetch() did and what makeRequest gave
    hook,             \* useUsers: its three state cells and its fetchUsers runs
    list,             \* UserList: its state cells and its message timer
    debounced,        \* debounce: the closure's timeout, and what was called and run
    throttled,        \* throttle: the closure's inThrottle, and what was called and run
    chunked,          \* chunkArray: an input and the chunks returned for it
    modal,            \* ConfirmDeleteModal: its props, its listener, the callbacks run
    request           \* makeRequest on its own: its options and the fetch() it issues

\* the state of the user interface around the service
components == <<hook, list, debounced, throttled, chunked, modal, request>>

vars == <<now, ticks, cache, pendingRequests, ops, calls, afterClear,
          idleAtClear, lastClear, log, components>>

\* the value of a component's variable where the component is not rendered
NotRendered == <<>>

EmptyMap == [k \in {} |-> Null]
MapSet(m, k, v) == [x \in DOMAIN m \cup {k} |-> IF x = k THEN v ELSE m[x]]
MapDelete(m, k) == [x \in DOMAIN m \ {k} |-> m[x]]

OpIds == 1..Len(ops)
CallIds == 1..Len(calls)

(***************************************************************************)
(* Cache freshness, lookup and store.                                      *)
(***************************************************************************)
\* isExpired mutated: entries never expire
isExpiredNever(entry, t) == FALSE

\* isExpired mutated: an entry expires when its age reaches the TTL
isExpiredAtTtl(entry, t) == t - entry.timestamp >= CACHE_DURATION

\* const isExpired = Date.now() - cached.timestamp > this.CACHE_DURATION
isExpired(entry, t) == t - entry.timestamp > CACHE_DURATION

\* getCachedData mutated: every lookup misses
getCachedDataMiss(key) == Null

\* getCachedData's return value (Null when absent or expired) ...
getCachedData(key) ==
    IF key \notin DOMAIN cache THEN Null
    ELSE IF isExpired(cache[key], now) THEN Null
    ELSE cache[key].data

\* the lookup mutated: an expired entry is reported as a miss but stays in
\* the cache
cacheAfterLookupKeeps(key) == cache

\* ... and the cache it leaves behind: an expired entry is deleted on lookup
cacheAfterLookup(key) ==
    IF key \in DOMAIN cache /\ isExpired(cache[key], now)
    THEN MapDelete(cache, key)
    ELSE cache

\* setCachedData mutated: the entry is stamped with the time the service
\* was created
setCachedDataStampedAtStart(c, key, data) ==
    MapSet(c, key, [data |-> data, timestamp |-> 0])

\* setCachedData on cache map c
setCachedData(c, key, data) ==
    MapSet(c, key, [data |-> data, timestamp |-> now])

(***************************************************************************)
(* retryRequest: one invocation is an op.                                  *)
(*   phase "fetch"   : suspended at `await requestFn()`, fetch outstanding *)
(*   phase "timer"   : suspended at the backoff setTimeout                 *)
(*   phase "settled" : returned; result holds the ApiResponse              *)
(*   phase "rejected": left by an exception thrown out of requestFn        *)
(***************************************************************************)
\* the backoff mutated to a doubling delay
retryDelayDoubling(delay, attempt) == delay * (2 ^ (attempt - 1))

\* setTimeout(resolve, delay * attempt)
retryDelay(delay, attempt) == delay * attempt

\* retryRequest from its call to its first suspension
retryRequestStart(url, maxRetries, delay) ==
    IF 1 <= maxRetries
    THEN [url |-> url, maxRetries |-> maxRetries, delay |-> delay,
          attempt |-> 1, phase |-> "fetch", due |-> 0, result |-> <<>>,
          status |-> 0, fetches |-> 1, waits |-> <<>>]
    ELSE [url |-> url, maxRetries |-> maxRetries, delay |-> delay,
          attempt |-> 1, phase |-> "settled", due |-> 0,
          result |-> <<Failure(NETWORK_ERROR)>>,
          status |-> 0, fetches |-> 0, waits |-> <<>>]

\* retryStep mutated: a 404 is taken as final and not retried
retryStepNoRetry404(op, outcome) ==
    LET result == makeRequest(outcome) IN
    IF Truthy(result.data) \/ op.attempt = op.maxRetries \/ outcome.status = 404
    THEN [op EXCEPT !.phase = "settled", !.result = <<result>>,
                    !.status = outcome.status]
    ELSE [op EXCEPT !.phase = "timer",
                    !.due = now + retryDelay(op.delay, op.attempt),
                    !.waits = Append(@, retryDelay(op.delay, op.attempt))]

\* retryStep mutated: an attempt counts as failed when it carries an error,
\* not when its data is falsy
retryStepChecksError(op, outcome) ==
    LET completion == makeRequestCompletion(outcome)
        result == completion.value IN
    IF completion.thrown
    THEN [op EXCEPT !.phase = "rejected", !.status = outcome.status]
    ELSE IF result.error = NoError \/ op.attempt = op.maxRetries
    THEN [op EXCEPT !.phase = "settled", !.result = <<result>>,
                    !.status = outcome.status]
    ELSE [op EXCEPT !.phase = "timer",
                    !.due = now + retryDelay(op.delay, op.attempt),
                    !.waits = Append(@, retryDelay(op.delay, op.attempt))]

\* retryStep mutated: the last failed attempt is answered with the generic
\* network error instead of its own result
retryStepGenericOnLast(op, outcome) ==
    LET completion == makeRequestCompletion(outcome)
        result == completion.value IN
    IF completion.thrown
    THEN [op EXCEPT !.phase = "rejected", !.status = outcome.status]
    ELSE IF Truthy(result.data)
    THEN [op EXCEPT !.phase = "settled", !.result = <<result>>,
                    !.status = outcome.status]
    ELSE IF op.attempt = op.maxRetries
    THEN [op EXCEPT !.phase = "settled",
                    !.result = <<Failure(NETWORK_ERROR)>>,
                    !.status = outcome.status]
    ELSE [op EXCEPT !.phase = "timer",
                    !.due = now + retryDelay(op.delay, op.attempt),
                    !.waits = Append(@, retryDelay(op.delay, op.attempt))]

\* retryStep mutated: the last attempt is not told from the others, so a
\* failed last attempt waits and leaves the loop by its condition
retryStepWaitsOnLast(op, outcome) ==
    LET completion == makeRequestCompletion(outcome)
        result == completion.value IN
    IF completion.thrown
    THEN [op EXCEPT !.phase = "rejected", !.status = outcome.status]
    ELSE IF Truthy(result.data)
    THEN [op EXCEPT !.phase = "settled", !.result = <<result>>,
                    !.status = outcome.status]
    ELSE [op EXCEPT !.phase = "timer",
                    !.due = now + retryDelay(op.delay, op.attempt),
                    !.waits = Append(@, retryDelay(op.delay, op.attempt))]

\* the loop body after `await requestFn()`: an exception of requestFn leaves
\* retryRequest (it has no try); a result is returned when it carries data or
\* this was the last attempt; else the timer is started
retryStep(op, outcome) ==
    LET completion == makeRequestCompletion(outcome)
        result == completion.value IN
    IF completion.thrown
    THEN [op EXCEPT !.phase = "rejected", !.status = outcome.status]
    ELSE IF Truthy(result.data) \/ op.attempt = op.maxRetries
    THEN [op EXCEPT !.phase = "settled", !.result = <<result>>,
                    !.status = outcome.status]
    ELSE [op EXCEPT !.phase = "timer",
                    !.due = now + retryDelay(op.delay, op.attempt),
                    !.waits = Append(@, retryDelay(op.delay, op.attempt))]

\* the timer callback mutated: the loop does not go on
retryAfterTimerStuck(op) == op

\* the loop after the backoff timer has fired: attempt++, test, next fetch
retryAfterTimer(op) ==
    IF op.attempt + 1 <= op.maxRetries
    THEN [op EXCEPT !.attempt = @ + 1, !.phase = "fetch", !.due = 0,
                    !.fetches = @ + 1]
    ELSE [op EXCEPT !.attempt = @ + 1, !.phase = "settled", !.due = 0,
                    !.result = <<Failure(NETWORK_ERROR)>>]

(***************************************************************************)
(* makeCachedRequest.  A call is one invocation:                           *)
(*   role "hit"   : answered from the cache                                *)
(*   role "join"  : returned the promise found in pendingRequests          *)
(*   role "start" : started a retryRequest and registered its promise      *)
(* overlaps holds the earlier calls for the same key that had not settled  *)
(* when this call was made, and age the age of the cache entry the call    *)
(* found under its key (-1 when it found none).  late tells that the       *)
(* promise a call joined had already settled: such a call is fulfilled by  *)
(* a job queued behind the continuation of the call that started the       *)
(* request, while a call that joined a promise still pending is fulfilled  *)
(* by a reaction of that promise, queued together with that continuation.  *)
(***************************************************************************)
\* the promise of op is no longer pending
Finished(op) == ops[op].phase \in {"settled", "rejected"}

Unsettled(key) == {c \in CallIds : calls[c].key = key /\ calls[c].pc = "await"}

\* pendingRequests lookup mutated: the pending promise is never found
hasPendingNever(key) == FALSE

\* the pending check mutated: a request counts as pending only while one of
\* its network calls is outstanding
hasPendingWhileFetching(key) ==
    /\ key \in DOMAIN pendingRequests
    /\ ops[pendingRequests[key]].phase = "fetch"

\* const pendingRequest = this.pendingRequests.get(cacheKey); if (pendingRequest)
hasPending(key) == key \in DOMAIN pendingRequests

EntryAge(key) ==
    IF key \in DOMAIN cache THEN now - cache[key].timestamp ELSE -1

NewCall(key, url, role, pc, op, result) ==
    [key |-> key, url |-> url, role |-> role, pc |-> pc, op |-> op,
     result |-> result, overlaps |-> Unsettled(key), age |-> EntryAge(key),
     late |-> role = "join" /\ Finished(op),
     backoff |-> role = "join" /\ ops[op].phase = "timer"]

\* the synchronous part of makeCachedRequest(url, cacheKey), up to its await
makeCachedRequest(url, cacheKey) ==
    LET cachedData == getCachedData(cacheKey) IN
    /\ afterClear' = afterClear \ {cacheKey}
    /\ idleAtClear' = idleAtClear \ {cacheKey}
    /\ cache' = cacheAfterLookup(cacheKey)
    /\ UNCHANGED <<now, ticks, lastClear, log>>
    /\ IF Truthy(cachedData)
       THEN /\ calls' = Append(calls, NewCall(cacheKey, url, "hit", "done", 0,
                               <<ApiResponse(cachedData, NoError)>>))
            /\ UNCHANGED <<pendingRequests, ops>>
       ELSE IF hasPending(cacheKey)
       THEN /\ calls' = Append(calls, NewCall(cacheKey, url, "join", "await",
                               pendingRequests[cacheKey], <<>>))
            /\ UNCHANGED <<pendingRequests, ops>>
       ELSE /\ ops' = Append(ops, retryRequestStart(url, DEFAULT_MAX_RETRIES,
                                                    DEFAULT_DELAY))
            /\ pendingRequests' = MapSet(pendingRequests, cacheKey, Len(ops) + 1)
            /\ calls' = Append(calls, NewCall(cacheKey, url, "start", "await",
                               Len(ops) + 1, <<>>))

getUsers ==
    /\ Len(calls) < MaxCalls
    /\ makeCachedRequest(USERS, UsersKey)
    /\ UNCHANGED components

getUserById ==
    /\ Len(calls) < MaxCalls
    /\ \E id \in Ids : makeCachedRequest(UserUrl(id), UserKey(id))
    /\ UNCHANGED components

\* the cache write mutated: every result is stored, failed ones too
CacheWriteAlways(c, key, result) == setCachedData(c, key, result.data)

\* the cache write mutated: an invalidation made while the request was in
\* flight cancels the write
CacheWriteUnlessCleared(c, key, result) ==
    IF Truthy(result.data) /\ key \notin afterClear
    THEN setCachedData(c, key, result.data)
    ELSE c

\* the part of makeCachedRequest after `await requestPromise`, in the call
\* that started the request: cache a truthy result, return it, and (finally)
\* delete the pending entry; a rejection of the awaited promise skips the
\* try block, runs the finally block and rejects the call
CacheWrite(c, key, result) ==
    IF Truthy(result.data) THEN setCachedData(c, key, result.data) ELSE c

\* the state in which a promise following op's promise ends up
Settlement(op) == IF ops[op].phase = "settled" THEN "done" ELSE "rejected"

\* the finally block mutated: the whole pending table is emptied
finallyClearsAll(key) == EmptyMap

\* the finally block mutated: the pending entry is left in the table
finallyKeepsPending(key) == pendingRequests

\* finally { this.pendingRequests.delete(cacheKey) }
finally(key) == MapDelete(pendingRequests, key)

\* the calls that joined op while its promise was pending: their promises are
\* settled by reactions that run right behind the starting call's continuation
Reactions(op) ==
    {d \in CallIds : /\ calls[d].role = "join"
                     /\ calls[d].op = op
                     /\ calls[d].pc = "await"
                     /\ ~calls[d].late}

Resume ==
    \E c \in CallIds :
        /\ calls[c].role = "start"
        /\ calls[c].pc = "await"
        /\ Finished(calls[c].op)
        /\ cache' = IF ops[calls[c].op].phase = "settled"
                    THEN CacheWrite(cache, calls[c].key,
                                    ops[calls[c].op].result[1])
                    ELSE cache
        /\ pendingRequests' = finally(calls[c].key)
        /\ calls' = [d \in CallIds |->
                         IF d = c \/ d \in Reactions(calls[c].op)
                         THEN [calls[d] EXCEPT
                                   !.pc = Settlement(calls[c].op),
                                   !.result = ops[calls[c].op].result]
                         ELSE calls[d]]
        /\ UNCHANGED <<components, now, ticks, ops, afterClear, idleAtClear, lastClear, log>>

\* the call that started op has run its continuation
Resumed(op) ==
    \A c \in CallIds :
        (calls[c].role = "start" /\ calls[c].op = op) => calls[c].pc # "await"

\* the promise of a call that joined an already settled promise follows it
\* two jobs later; the starting call's continuation was queued before
Joined ==
    \E c \in CallIds :
        /\ calls[c].role = "join"
        /\ calls[c].late
        /\ calls[c].pc = "await"
        /\ Finished(calls[c].op)
        /\ Resumed(calls[c].op)
        /\ calls' = [calls EXCEPT ![c].pc = Settlement(calls[c].op),
                                  ![c].result = ops[calls[c].op].result]
        /\ UNCHANGED <<components, now, ticks, cache, pendingRequests, ops,
                       afterClear, idleAtClear, lastClear, log>>

(***************************************************************************)
(* The network and the timers.  A network answer and a timer are tasks of  *)
(* the event loop: one runs only when the continuations that the previous  *)
(* task made ready (microtasks) have all run.                              *)
(***************************************************************************)
\* every call whose awaited promise is no longer pending has run on
MicrotasksDrained ==
    \A c \in CallIds : calls[c].pc = "await" => ~Finished(calls[c].op)

\* fetch() settles for an op suspended in makeRequest; the loop runs on to
\* its next suspension or to its return
FetchSettle(o, outcome) ==
    /\ MicrotasksDrained
    /\ ops[o].phase = "fetch"
    /\ ops' = [ops EXCEPT ![o] = retryStep(ops[o], outcome)]
    /\ UNCHANGED <<components, now, ticks, cache, pendingRequests, calls,
                   afterClear, idleAtClear, lastClear>>

FetchSettles ==
    \E o \in OpIds : \E outcome \in NetworkOutcomes(ops[o].url) :
        FetchSettle(o, outcome) /\ UNCHANGED log

\* a backoff timer fires, not before it is due
TimerFires ==
    \E o \in OpIds :
        /\ MicrotasksDrained
        /\ ops[o].phase = "timer"
        /\ now >= ops[o].due
        /\ ops' = [ops EXCEPT ![o] = retryAfterTimer(ops[o])]
        /\ UNCHANGED <<components, now, ticks, cache, pendingRequests, calls,
                       afterClear, idleAtClear, lastClear, log>>

\* time passes: the clock of the service's callers moves in cache lifetimes
Tick ==
    /\ MicrotasksDrained
    /\ ticks < MaxTicks
    /\ now' = now + CACHE_DURATION
    /\ ticks' = ticks + 1
    /\ UNCHANGED <<components, cache, pendingRequests, ops, calls, afterClear,
                   idleAtClear,
                   lastClear, log>>

(***************************************************************************)
(* Cache invalidation.                                                     *)
(***************************************************************************)
\* clearCache mutated: the entries stay
clearCacheKeeps ==
    /\ cache' = cache
    /\ UNCHANGED <<components, now, ticks, pendingRequests, ops, calls, log>>

\* this.cache.clear()
clearCache ==
    /\ cache' = EmptyMap
    /\ UNCHANGED <<components, now, ticks, pendingRequests, ops, calls, log>>

\* the record of clearCache() that the claims about it read
ClearTracked ==
    /\ afterClear' = Keys
    /\ idleAtClear' = Keys \ DOMAIN pendingRequests
    /\ UNCHANGED lastClear

ClearUntracked == UNCHANGED <<afterClear, idleAtClear, lastClear>>

ClearLabelled ==
    /\ lastClear' = "all"
    /\ UNCHANGED <<afterClear, idleAtClear>>

\* clearCacheEntry mutated: the whole cache is dropped
clearCacheEntryOfAll(key) ==
    /\ cache' = EmptyMap
    /\ UNCHANGED <<components, now, ticks, pendingRequests, ops, calls,
                   afterClear, idleAtClear, log>>

\* this.cache.delete(key)
clearCacheEntryOf(key) ==
    /\ cache' = MapDelete(cache, key)
    /\ UNCHANGED <<components, now, ticks, pendingRequests, ops, calls,
                   afterClear, idleAtClear, log>>

clearCacheEntry ==
    \E key \in Keys : clearCacheEntryOf(key) /\ UNCHANGED lastClear

\* the same, recorded in lastClear
clearCacheEntryLabelled ==
    \E key \in Keys : clearCacheEntryOf(key) /\ lastClear' = key

(***************************************************************************)
(* The service as its callers drive it.                                    *)
(***************************************************************************)
Init ==
    /\ now = 0
    /\ ticks = 0
    /\ cache = EmptyMap
    /\ pendingRequests = EmptyMap
    /\ ops = <<>>
    /\ calls = <<>>
    /\ afterClear = {}
    /\ idleAtClear = {}
    /\ lastClear = "none"
    /\ log = <<>>
    /\ hook = NotRendered
    /\ list = NotRendered
    /\ debounced = NotRendered
    /\ throttled = NotRendered
    /\ chunked = NotRendered
    /\ modal = NotRendered
    /\ request = NotRendered

Next ==
    \/ getUsers
    \/ getUserById
    \/ Resume
    \/ Joined
    \/ FetchSettles
    \/ TimerFires
    \/ Tick
    \/ (clearCache /\ ClearUntracked)
    \/ clearCacheEntry

Spec == Init /\ [][Next]_vars

\* the same service with clearCache() as its only invalidation, recorded in
\* afterClear / idleAtClear
NextTracked ==
    \/ getUsers
    \/ getUserById
    \/ Resume
    \/ Joined
    \/ FetchSettles
    \/ TimerFires
    \/ Tick
    \/ (clearCache /\ ClearTracked)

SpecTracked == Init /\ [][NextTracked]_vars

\* the same service over a span in which no backoff timer fires, with the
\* latest invalidation recorded in lastClear
NextLabelled ==
    \/ getUsers
    \/ getUserById
    \/ Resume
    \/ Joined
    \/ FetchSettles
    \/ Tick
    \/ (clearCache /\ ClearLabelled)
    \/ clearCacheEntryLabelled

SpecLabelled == Init /\ [][NextLabelled]_vars

(***************************************************************************)
(* getUsers on its own: more calls for the one key, and the network        *)
(* answering in every way.                                                 *)
(***************************************************************************)
getUsersOften ==
    /\ Len(calls) < MaxUsersCalls
    /\ makeCachedRequest(USERS, UsersKey)
    /\ UNCHANGED components

FetchSettlesWide ==
    \E o \in OpIds : \E outcome \in AllOutcomes(ops[o].url) :
        FetchSettle(o, outcome) /\ UNCHANGED log

NextUsers ==
    \/ getUsersOften
    \/ Resume
    \/ Joined
    \/ FetchSettlesWide
    \/ TimerFires
    \/ Tick
    \/ (clearCache /\ ClearUntracked)
    \/ clearCacheEntry

SpecUsers == Init /\ [][NextUsers]_vars

(***************************************************************************)
(* The service with a network that answers every fetch and an event loop   *)
(* that runs every ready continuation and every due timer: the clock moves *)
(* on to the next backoff timer whenever one is waiting.                   *)
(***************************************************************************)
\* the due times of the backoff timers that are still waiting
WaitingTimers ==
    {ops[o].due : o \in {p \in OpIds : ops[p].phase = "timer" /\ now < ops[p].due}}

Advance ==
    /\ MicrotasksDrained
    /\ WaitingTimers # {}
    /\ now' = CHOOSE t \in WaitingTimers : \A u \in WaitingTimers : t <= u
    /\ UNCHANGED <<components, ticks, cache, pendingRequests, ops, calls,
                   afterClear, idleAtClear, lastClear, log>>

NextLive ==
    \/ getUsers
    \/ Resume
    \/ Joined
    \/ FetchSettles
    \/ TimerFires
    \/ Advance
    \/ (clearCache /\ ClearUntracked)
    \/ clearCacheEntry

\* every fetch() settles, every timer fires when due, time passes, and every
\* continuation whose promise has settled runs
Fairness ==
    /\ WF_vars(FetchSettles)
    /\ WF_vars(TimerFires)
    /\ WF_vars(Advance)
    /\ WF_vars(Resume)
    /\ WF_vars(Joined)

SpecLive == Init /\ [][NextLive]_vars /\ Fairness

(***************************************************************************)
(* retryRequest on its own: one invocation with any maxRetries and either  *)
(* of two base delays, the network answering each attempt, and a clock     *)
(* that moves in steps of the default delay.                               *)
(***************************************************************************)
RetryDelays == {DEFAULT_DELAY, DEFAULT_DELAY \div 2}

InitRetry ==
    /\ now = 0
    /\ ticks = 0
    /\ cache = EmptyMap
    /\ pendingRequests = EmptyMap
    /\ calls = <<>>
    /\ afterClear = {}
    /\ idleAtClear = {}
    /\ lastClear = "none"
    /\ log = <<>>
    /\ hook = NotRendered
    /\ list = NotRendered
    /\ debounced = NotRendered
    /\ throttled = NotRendered
    /\ chunked = NotRendered
    /\ modal = NotRendered
    /\ request = NotRendered
    /\ \E maxRetries \in 0..MaxRetriesArg, delay \in RetryDelays :
           ops = <<retryRequestStart(USERS, maxRetries, delay)>>

TickDelay ==
    /\ ticks < MaxBackoffTicks
    /\ now' = now + DEFAULT_DELAY
    /\ ticks' = ticks + 1
    /\ UNCHANGED <<components, cache, pendingRequests, ops, calls, afterClear,
                   idleAtClear,
                   lastClear, log>>

\* the record of the attempts: the first one and the latest one, each with
\* what fetch() did and what requestFn returned for it
Logged(l, outcome) ==
    LET entry == [outcome |-> outcome, result |-> makeRequest(outcome)] IN
    IF l = <<>> THEN <<entry>> ELSE <<l[1], entry>>

FetchSettlesAny ==
    \E o \in OpIds : \E outcome \in AllOutcomes(ops[o].url) :
        FetchSettle(o, outcome) /\ log' = Logged(log, outcome)

NextRetry ==
    \/ FetchSettlesAny
    \/ TimerFires
    \/ TickDelay

SpecRetry == InitRetry /\ [][NextRetry]_vars

(***************************************************************************)
(* Properties.                                                             *)
(***************************************************************************)
\* the retryRequest invocations started for key whose starting call has not
\* yet run its continuation
LiveOps(key) ==
    {calls[c].op : c \in {d \in CallIds : /\ calls[d].key = key
                                          /\ calls[d].role = "start"
                                          /\ calls[d].pc = "await"}}

\* raw network calls issued on behalf of call c itself
RawCalls(c) ==
    IF calls[c].role = "start" THEN ops[calls[c].op].fetches ELSE 0

\* C1: for every key, in every reachable state, at most one retrying fetch
\* operation is alive for that key, hence at most one raw network call of
\* that key is outstanding.
C1_OneOperationPerKey ==
    \A key \in Keys :
        /\ Cardinality(LiveOps(key)) <= 1
        /\ Cardinality({o \in LiveOps(key) : ops[o].phase = "fetch"}) <= 1

\* two calls for one key, the second joined to the first one's outstanding fetch
C1_Witness ==
    \E c1, c2 \in CallIds :
        /\ c1 < c2
        /\ calls[c1].key = calls[c2].key
        /\ calls[c1].role = "start"
        /\ calls[c2].role = "join"
        /\ ops[calls[c1].op].phase = "fetch"

\* C2: a call made for a key while the call that started the key's request is
\* still in flight receives the very Result the starting call receives, on
\* success and on exhausted retries alike.
C2_JoinedCallsSeeSameResult ==
    \A c2 \in CallIds : \A c1 \in calls[c2].overlaps :
        (/\ calls[c1].role = "start"
         /\ calls[c1].pc = "done"
         /\ calls[c2].pc = "done")
        => calls[c2].result = calls[c1].result

\* both callers have received the error of an operation that used up its
\* three attempts
C2_Witness ==
    \E c2 \in CallIds : \E c1 \in calls[c2].overlaps :
        /\ calls[c1].role = "start"
        /\ calls[c1].pc = "done"
        /\ calls[c2].pc = "done"
        /\ calls[c2].role = "join"
        /\ ops[calls[c1].op].fetches = DEFAULT_MAX_RETRIES
        /\ calls[c2].result[1].error # NoError

\* C3 as stated: two calls for a key, the second made before the first has
\* settled, cause at most one raw network call in total.
C3_AtMostOneRawCall ==
    \A c2 \in CallIds : \A c1 \in calls[c2].overlaps :
        RawCalls(c1) + RawCalls(c2) <= 1

\* C3 amended: two such calls start at most one retrying operation between
\* them, which makes at most maxRetries (3) raw network calls.
C3_AtMostOneOperation ==
    \A c2 \in CallIds : \A c1 \in calls[c2].overlaps :
        /\ ~(calls[c1].role = "start" /\ calls[c2].role = "start")
        /\ RawCalls(c1) + RawCalls(c2) <= DEFAULT_MAX_RETRIES

\* the second call joined the first one's operation, which went on to a
\* second raw network call
C3_Witness ==
    \E c2 \in CallIds : \E c1 \in calls[c2].overlaps :
        /\ calls[c1].role = "start"
        /\ calls[c2].role = "join"
        /\ calls[c2].op = calls[c1].op
        /\ ops[calls[c1].op].fetches > 1

\* a step in which getUsers / getUserById is called, and that call
CallMade == Len(calls') = Len(calls) + 1
TheCall == calls'[Len(calls')]
\* the step starts a retrying operation for TheCall, whose first raw network
\* call is issued in the same step
StartsFetch ==
    /\ TheCall.role = "start"
    /\ Len(ops') = Len(ops) + 1
    /\ TheCall.op = Len(ops')
    /\ ops'[Len(ops')].url = TheCall.url
    /\ ops'[Len(ops')].phase = "fetch"
    /\ ops'[Len(ops')].fetches = 1

\* C4: data with which a starting call settles is stored under its key at
\* that moment, and every call that finds an entry no older than the TTL
\* under its key returns {data: the stored value, error: null} at once and
\* issues no network call.
C4_Step ==
    /\ \A c \in CallIds :
           (/\ calls[c].role = "start"
            /\ calls[c].pc = "await"
            /\ calls'[c].pc = "done"
            /\ calls'[c].result[1].data # Null)
           => /\ calls[c].key \in DOMAIN cache'
              /\ cache'[calls[c].key] =
                     [data |-> calls'[c].result[1].data, timestamp |-> now]
    /\ CallMade =>
           LET key == TheCall.key IN
           (key \in DOMAIN cache /\ now - cache[key].timestamp <= CACHE_DURATION)
           => /\ TheCall.pc = "done"
              /\ TheCall.result = <<ApiResponse(cache[key].data, NoError)>>
              /\ ops' = ops
              /\ pendingRequests' = pendingRequests
              /\ cache' = cache

C5_Step ==
    CallMade =>
        LET key == TheCall.key IN
        /\ TheCall.pc = "done" =>
               /\ key \in DOMAIN cache
               /\ now - cache[key].timestamp <= CACHE_DURATION
               /\ TheCall.result = <<ApiResponse(cache[key].data, NoError)>>
        /\ (key \in DOMAIN cache /\ now - cache[key].timestamp > CACHE_DURATION)
               => StartsFetch

C5_ExpiredNeverServed == [][C5_Step]_vars

\* a call found an entry older than the TTL and started a request
C5_Witness ==
    \E c \in CallIds :
        /\ calls[c].age > CACHE_DURATION
        /\ calls[c].role = "start"

C7_CacheOnlyFrom2xx ==
    /\ \A o \in OpIds :
           (ops[o].phase = "settled" /\ ~Ok(ops[o].status))
           => /\ ops[o].result[1].data = Null
              /\ ops[o].result[1].error # NoError
    /\ \A key \in DOMAIN cache :
           /\ cache[key].data # Null
           /\ \E c \in CallIds :
                  /\ calls[c].key = key
                  /\ calls[c].role = "start"
                  /\ ops[calls[c].op].phase = "settled"
                  /\ Ok(ops[calls[c].op].status)
                  /\ ops[calls[c].op].result[1].data = cache[key].data

\* a request ended with status 500 after its last attempt, its caller got the
\* error, and the cache holds nothing for the key
C7_Witness ==
    \E c \in CallIds :
        /\ calls[c].role = "start"
        /\ calls[c].pc = "done"
        /\ ops[calls[c].op].status = 500
        /\ calls[c].result[1].data = Null
        /\ calls[c].key \notin DOMAIN cache

\* a retryRequest invocation has returned and none of its attempts gave data
Exhausted(o) == ops[o].phase = "settled" /\ ~Truthy(ops[o].result[1].data)

\* C8: a retrying operation all of whose attempts fail, whether by a rejected
\* network call or by a non-2xx status such as 404, has invoked the raw
\* network call exactly maxRetries times when it returns.
C8_ExactlyMaxRetriesCalls ==
    \A o \in OpIds :
        /\ ops[o].fetches <= ops[o].maxRetries
        /\ Exhausted(o) => ops[o].fetches = ops[o].maxRetries

\* the default three attempts were made and the last one ended in a 404
C8_Witness ==
    \E o \in OpIds :
        /\ Exhausted(o)
        /\ ops[o].maxRetries = DEFAULT_MAX_RETRIES
        /\ ops[o].fetches = DEFAULT_MAX_RETRIES
        /\ ops[o].status = 404

C10_ExponentialBackoff ==
    \A o \in OpIds :
        \A k \in 1..Len(ops[o].waits) :
            ops[o].waits[k] = IF k = 1 THEN ops[o].delay
                              ELSE 2 * ops[o].waits[k - 1]

\* C11: as soon as an attempt returns a Result with non-null data, the
\* retrying operation returns that Result, with no further raw network call
\* and no further backoff wait: an attempt that gave non-null data is the
\* latest one and the operation has settled with its Result.
C11_DataEndsTheOperation ==
    \A o \in OpIds : \A i \in 1..Len(log) :
        log[i].result.data # Null
        => /\ i = Len(log)
           /\ ops[o].phase = "settled"
           /\ ops[o].result = <<log[i].result>>

\* the latest attempt of the retryRequest exercised on its own
LastAttempt == log[Len(log)]

\* C12: when all maxRetries attempts have failed, the Result of the retrying
\* operation is the Result of its last attempt: data null and the error
\* message of that attempt, not the message of an earlier attempt and not a
\* generic one.
C12_LastAttemptsError ==
    \A o \in OpIds :
        (/\ Exhausted(o)
         /\ ops[o].maxRetries >= 1
         /\ LastAttempt.result.error # NoError)
        => /\ ops[o].fetches = ops[o].maxRetries
           /\ ops[o].result[1].data = Null
           /\ ops[o].result[1].error = LastAttempt.result.error
           /\ ops[o].result[1].error # <<NETWORK_ERROR>>

\* three attempts failed, the first by a rejected network call and the last
\* with status 404, and the operation returned the 404 message
C12_Witness ==
    \E o \in OpIds :
        /\ Exhausted(o)
        /\ ops[o].maxRetries = DEFAULT_MAX_RETRIES
        /\ Len(log) = 2
        /\ log[1].result.error = <<"Network down">>
        /\ LastAttempt.outcome.status = 404
        /\ ops[o].result[1].error = <<"HTTP error! status: 404">>

\* C13: every Result that getUsers / getUserById has returned has exactly one
\* of its two fields non-null: data non-null and error null, or data null and
\* error non-null.
C13_ExactlyOneFieldNonNull ==
    \A c \in CallIds :
        calls[c].pc = "done"
        => \/ /\ calls[c].result[1].data # Null
              /\ calls[c].result[1].error = NoError
           \/ /\ calls[c].result[1].data = Null
              /\ calls[c].result[1].error # NoError

\* C14: no network rejection, non-2xx status or body-parse failure, in any
\* attempt, makes a retrying operation or a getUsers / getUserById call
\* reject: a call that has settled has been fulfilled with a Result.
C14_NeverRejects ==
    /\ \A o \in OpIds : ops[o].phase # "rejected"
    /\ \A c \in CallIds :
           /\ calls[c].pc \in {"await", "done"}
           /\ calls[c].pc = "done" =>
                  /\ Len(calls[c].result) = 1
                  /\ DOMAIN calls[c].result[1] = {"data", "error"}

\* two calls were fulfilled with the error of an operation whose third
\* attempt ended in a body that does not parse
C14_Witness ==
    \E c1, c2 \in CallIds :
        /\ calls[c1].role = "start"
        /\ calls[c2].role = "join"
        /\ calls[c2].op = calls[c1].op
        /\ calls[c1].pc = "done"
        /\ calls[c2].pc = "done"
        /\ ops[calls[c1].op].fetches = DEFAULT_MAX_RETRIES
        /\ calls[c2].result = <<Failure(PARSE_ERROR)>>

\* the retryRequest invocations for key that have not settled
InProgress(key) ==
    {calls[c].op : c \in {d \in CallIds : /\ calls[d].key = key
                                          /\ calls[d].role = "start"
                                          /\ ~Finished(calls[d].op)}}

\* C15 as stated: the pending table has an entry for a key exactly while a
\* retrying operation for that key is in progress, that is, from its start
\* until it settles.
C15_EntryWhileInProgress ==
    \A key \in Keys : key \in DOMAIN pendingRequests <=> InProgress(key) # {}

\* C15 amended: the pending table has an entry for a key exactly from the
\* start of a retrying operation for that key until the call that started it
\* runs its continuation, which follows the operation's settlement; the entry
\* is that operation, and while the operation is in progress it is there.
C15_EntryUntilStarterResumes ==
    \A key \in Keys :
        /\ key \in DOMAIN pendingRequests <=> LiveOps(key) # {}
        /\ key \in DOMAIN pendingRequests => LiveOps(key) = {pendingRequests[key]}
        /\ InProgress(key) \subseteq LiveOps(key)

\* the request of one key has used up its attempts and its entry is gone,
\* while the request of another key is outstanding and registered
C15_Witness ==
    \E c1, c2 \in CallIds :
        /\ calls[c1].key # calls[c2].key
        /\ calls[c1].role = "start"
        /\ calls[c1].pc = "done"
        /\ calls[c1].result[1].error # NoError
        /\ calls[c1].key \notin DOMAIN pendingRequests
        /\ calls[c2].role = "start"
        /\ ops[calls[c2].op].phase = "fetch"
        /\ pendingRequests[calls[c2].key] = calls[c2].op

\* C16: a clearCache() step leaves the cache empty; a clearCacheEntry(key)
\* step leaves no entry under key and every other key with exactly the entry
\* it had; both leave the pending table, every retrying operation and every
\* call as they were.
C16_Step ==
    (lastClear' # lastClear) =>
        /\ lastClear' = "all" => DOMAIN cache' = {}
        /\ lastClear' \in Keys =>
               /\ lastClear' \notin DOMAIN cache'
               /\ \A key \in Keys \ {lastClear'} :
                      /\ key \in DOMAIN cache' <=> key \in DOMAIN cache
                      /\ key \in DOMAIN cache => cache'[key] = cache[key]
        /\ pendingRequests' = pendingRequests
        /\ ops' = ops
        /\ calls' = calls

C16_InvalidationFrame == [][C16_Step]_vars

\* two keys had been fetched and stored, clearCacheEntry removed the entry of
\* user 1 and the user list is still stored
C16_Witness ==
    /\ lastClear = UserKey(1)
    /\ ticks = 0
    /\ UserKey(1) \notin DOMAIN cache
    /\ UsersKey \in DOMAIN cache
    /\ \E c \in CallIds :
           /\ calls[c].key = UserKey(1)
           /\ calls[c].pc = "done"
           /\ calls[c].result[1].data # Null

\* call c has settled with an error
SettledWithError(c) ==
    /\ calls[c].pc = "done"
    /\ calls[c].result[1].error # NoError

\* no call for the key of call c has been made since c settled
NoCallSince(c) ==
    \A d \in CallIds :
        (d > c /\ calls[d].key = calls[c].key) => c \in calls[d].overlaps

\* a call made before call c settled started another request for c's key
StartedMeanwhile(c) ==
    \E m \in CallIds : c \in calls[m].overlaps /\ calls[m].role = "start"

\* the step settles call c
Settles(c) == calls[c].pc = "await" /\ calls'[c].pc = "done"

\* C17 as stated: when a call settles with a non-null error no cache entry
\* exists for its key, and the next call for that key made after the
\* settlement issues a new network call.
C17_StepAsStated ==
    /\ \A c \in CallIds :
           (Settles(c) /\ calls'[c].result[1].error # NoError)
           => calls[c].key \notin DOMAIN cache'
    /\ CallMade =>
           \A c \in CallIds :
               (/\ calls[c].key = TheCall.key
                /\ SettledWithError(c)
                /\ NoCallSince(c))
               => StartsFetch

C17_Step ==
    /\ \A c \in CallIds :
           (Settles(c) /\ calls'[c].result[1].error # NoError)
           => calls[c].key \notin DOMAIN cache'
    /\ CallMade =>
           \A c \in CallIds :
               (/\ calls[c].key = TheCall.key
                /\ SettledWithError(c)
                /\ NoCallSince(c)
                /\ ~StartedMeanwhile(c))
               => StartsFetch

UrlOfKey(key) ==
    IF key = "users" THEN "https://jsonplaceholder.typicode.com/users"
    ELSE "https://jsonplaceholder.typicode.com/users/"
             \o NumToString(CHOOSE id \in Ids : key = "user-" \o NumToString(id))

\* C18: getUsers() fetches {base}/users under the key "users" and
\* getUserById(id) fetches {base}/users/{id} under the key "user-{id}"; a
\* call joins only an operation started by a call for its own key, every
\* pending entry and every cache entry belongs to a request for its own key,
\* and data returned to a call or stored under a key was fetched from the
\* url of that key.
C18_KeysAreSeparate ==
    /\ \A c \in CallIds :
           /\ calls[c].key \in {"users"} \cup {"user-" \o NumToString(id) : id \in Ids}
           /\ calls[c].url = UrlOfKey(calls[c].key)
           /\ calls[c].key = "user-1" =>
                  calls[c].url = "https://jsonplaceholder.typicode.com/users/1"
           /\ calls[c].role \in {"start", "join"} =>
                  /\ ops[calls[c].op].url = calls[c].url
                  /\ \E d \in CallIds :
                         /\ calls[d].role = "start"
                         /\ calls[d].op = calls[c].op
                         /\ calls[d].key = calls[c].key
           /\ (calls[c].pc = "done" /\ calls[c].result[1].data # Null) =>
                  calls[c].result[1].data \in OkBodies(UrlOfKey(calls[c].key))
    /\ \A key \in DOMAIN cache : cache[key].data \in OkBodies(UrlOfKey(key))
    /\ \A key \in DOMAIN pendingRequests :
           ops[pendingRequests[key]].url = UrlOfKey(key)

\* the user list and user 1 were requested one after the other, each call
\* started an operation of its own, and each got the data of its own url
C18_Witness ==
    \E c1, c2 \in CallIds :
        /\ calls[c1].key = "users"
        /\ calls[c2].key = "user-1"
        /\ calls[c1].role = "start"
        /\ calls[c2].role = "start"
        /\ calls[c1].op # calls[c2].op
        /\ calls[c1].pc = "done"
        /\ calls[c2].pc = "done"
        /\ calls[c1].result[1].data = JArray(<<1, 2>>)
        /\ calls[c2].result[1].data = JObject(<<1>>)
        /\ DOMAIN cache = {"users", "user-1"}

\* C19: a raw request answered with a non-2xx status s yields the error
\* "HTTP error! status: s"; a raw request whose network call rejects yields
\* the message of the error it rejected with, or the generic fallback message
\* when that error carries no message; data is null in both cases.
C19_RawRequestErrors ==
    \A i \in 1..Len(log) :
        /\ (log[i].outcome.kind = "response" /\ ~Ok(log[i].outcome.status)) =>
               log[i].result =
                   [data |-> Null,
                    error |-> <<"HTTP error! status: "
                                  \o NumToString(log[i].outcome.status)>>]
        /\ log[i].outcome.status = 404 =>
               log[i].result.error = <<"HTTP error! status: 404">>
        /\ log[i].outcome.kind = "reject" =>
               log[i].result =
                   [data |-> Null,
                    error |-> <<IF log[i].outcome.message # ""
                                THEN log[i].outcome.message
                                ELSE "An unknown error occurred">>]

\* a body that is falsy in JavaScript, or an array or object without members
EmptyOrFalsy(v) ==
    \/ ~Truthy(v)
    \/ v.type \in {"array", "object"} /\ v.items = <<>>

\* C20 as stated: a 2xx response whose parsed body is empty or falsy, an
\* empty array included, counts as a failed attempt: an operation returns
\* such a body only from its last attempt, and no cache entry holds one.
C20_EmptyBodyIsFailure ==
    /\ \A o \in OpIds :
           (/\ ops[o].phase = "settled"
            /\ Ok(ops[o].status)
            /\ ops[o].result[1].error = NoError
            /\ EmptyOrFalsy(ops[o].result[1].data))
           => ops[o].fetches = ops[o].maxRetries
    /\ \A key \in DOMAIN cache : ~EmptyOrFalsy(cache[key].data)

\* C20 amended: a 2xx response whose parsed body is falsy in JavaScript (null,
\* 0) counts as a failed attempt: an operation returns such a body only from
\* its last attempt, and no cache entry holds one.  An empty array is truthy
\* and is not such a body.
C20_FalsyBodyIsFailure ==
    /\ \A o \in OpIds :
           (/\ ops[o].phase = "settled"
            /\ Ok(ops[o].status)
            /\ ops[o].result[1].error = NoError
            /\ ~Truthy(ops[o].result[1].data))
           => ops[o].fetches = ops[o].maxRetries
    /\ \A key \in DOMAIN cache : Truthy(cache[key].data)

\* one request was answered 200 with body null three times over, its caller
\* got {data: null, error: null} and nothing was stored; the next request was
\* answered with an empty list at once, and the empty list is in the cache
C20_Witness ==
    \E c1, c2 \in CallIds :
        /\ c1 < c2
        /\ calls[c1].role = "start"
        /\ calls[c1].pc = "done"
        /\ calls[c1].result = <<ApiResponse(Null, NoError)>>
        /\ ops[calls[c1].op].fetches = DEFAULT_MAX_RETRIES
        /\ calls[c1].age = -1
        /\ calls[c2].role = "start"
        /\ calls[c2].age = -1
        /\ calls[c2].pc = "done"
        /\ ops[calls[c2].op].fetches = 1
        /\ calls[c2].result = <<ApiResponse(JArray(<<>>), NoError)>>
        /\ calls[c2].key \in DOMAIN cache
        /\ cache[calls[c2].key].data = JArray(<<>>)

\* a step changes a retrying operation only by a network answer or a timer:
\* never together with a call, a continuation or an invalidation, and no
\* operation is dropped
C21_Step ==
    /\ Len(ops') >= Len(ops)
    /\ \A o \in OpIds :
           ops'[o] # ops[o] =>
               /\ calls' = calls
               /\ cache' = cache
               /\ pendingRequests' = pendingRequests
               /\ ~Finished(o)
               /\ ops'[o].fetches >= ops[o].fetches

\* C21: provided every raw network call settles, every getUsers / getUserById
\* call that has been made eventually settles; its operation makes at most
\* maxRetries attempts, all of them unless one gave data; and no call,
\* clearCache or clearCacheEntry changes an operation that is in flight.
C21_RunsToCompletion ==
    /\ \A c \in 1..MaxCalls :
           (Len(calls) >= c) ~> (Len(calls) >= c /\ calls[c].pc = "done")
    /\ [](\A o \in OpIds :
              /\ ops[o].fetches <= ops[o].maxRetries
              /\ Exhausted(o) => ops[o].fetches = ops[o].maxRetries)
    /\ [][C21_Step]_vars

\* a request used all three attempts and the call that started it and the
\* call that joined it have both settled, nothing being left pending
C21_Witness ==
    \E c1, c2 \in CallIds :
        /\ calls[c1].role = "start"
        /\ calls[c2].role = "join"
        /\ calls[c2].op = calls[c1].op
        /\ ops[calls[c1].op].fetches = DEFAULT_MAX_RETRIES
        /\ calls[c1].pc = "done"
        /\ calls[c2].pc = "done"
        /\ DOMAIN pendingRequests = {}

\* the key's registered operation is waiting for its backoff timer
InBackoff(key) ==
    /\ key \in DOMAIN pendingRequests
    /\ ops[pendingRequests[key]].phase = "timer"

\* a call made while its key's operation is in a backoff wait joins that
\* operation and starts nothing
C30_Step ==
    (Len(calls') = Len(calls) + 1 /\ InBackoff(calls'[Len(calls')].key)) =>
        LET c == calls'[Len(calls')] IN
        /\ c.role = "join"
        /\ c.op = pendingRequests[c.key]
        /\ c.backoff
        /\ ops' = ops
        /\ pendingRequests' = pendingRequests

\* C30: a call for a key made while the key's retrying operation waits for
\* its backoff timer joins the registered operation, issues no network call
\* of its own, and when it has settled its Result is the operation's final
\* Result.
C30_JoinsDuringBackoff ==
    /\ [][C30_Step]_vars
    /\ [](\A c \in CallIds :
              (calls[c].backoff /\ calls[c].pc = "done") =>
                  /\ Finished(calls[c].op)
                  /\ calls[c].result = ops[calls[c].op].result)

\* a call joined during a backoff wait and has settled with the result of an
\* operation that went on to make another attempt
C30_Witness ==
    \E c \in CallIds :
        /\ calls[c].backoff
        /\ calls[c].pc = "done"
        /\ ops[calls[c].op].fetches >= 2
        /\ Truthy(calls[c].result[1].data)

(***************************************************************************)
(* The service as the components and utilities see it: its variables, and  *)
(* its state right after construction.                                     *)
(***************************************************************************)
service == <<now, ticks, cache, pendingRequests, ops, calls, afterClear,
             idleAtClear, lastClear, log>>

ServiceInit ==
    /\ now = 0
    /\ ticks = 0
    /\ cache = EmptyMap
    /\ pendingRequests = EmptyMap
    /\ ops = <<>>
    /\ calls = <<>>
    /\ afterClear = {}
    /\ idleAtClear = {}
    /\ lastClear = "none"
    /\ log = <<>>

(***************************************************************************)
(* utils/performance.ts: chunkArray                                        *)
(***************************************************************************)
MaxLen == 4
MaxChunkSize == 3

\* the elements of the arrays that are chunked
Elements == {1, 2}

Arrays == UNION {[1..n -> Elements] : n \in 0..MaxLen}

Min(a, b) == IF a <= b THEN a ELSE b

\* array.slice(start, end) for 0 <= start <= end: indices start .. end-1,
\* cut off at the end of the array
slice(array, start, end) == SubSeq(array, start + 1, Min(end, Len(array)))

\* the loop mutated: a chunk is pushed only if it is full
RECURSIVE chunkArrayFromWhole(_, _, _)
chunkArrayFromWhole(array, chunkSize, i) ==
    IF i + chunkSize <= Len(array)
    THEN <<slice(array, i, i + chunkSize)>>
             \o chunkArrayFromWhole(array, chunkSize, i + chunkSize)
    ELSE <<>>

\* for (let i = ...; i < array.length; i += chunkSize)
\*     chunks.push(array.slice(i, i + chunkSize))
RECURSIVE chunkArrayFrom(_, _, _)
chunkArrayFrom(array, chunkSize, i) ==
    IF i < Len(array)
    THEN <<slice(array, i, i + chunkSize)>>
             \o chunkArrayFrom(array, chunkSize, i + chunkSize)
    ELSE <<>>

chunkArray(array, chunkSize) == chunkArrayFrom(array, chunkSize, 0)

InitChunk ==
    /\ ServiceInit
    /\ hook = NotRendered
    /\ list = NotRendered
    /\ debounced = NotRendered
    /\ throttled = NotRendered
    /\ modal = NotRendered
    /\ request = NotRendered
    /\ \E array \in Arrays, chunkSize \in 1..MaxChunkSize :
           chunked = [array |-> array, chunkSize |-> chunkSize,
                      returned |-> FALSE, chunks |-> <<>>]

ChunkArrayCall ==
    /\ ~chunked.returned
    /\ chunked' = [chunked EXCEPT
                       !.returned = TRUE,
                       !.chunks = chunkArray(chunked.array, chunked.chunkSize)]
    /\ UNCHANGED <<service, hook, list, debounced, throttled, modal, request>>

NextChunk == ChunkArrayCall

SpecChunk == InitChunk /\ [][NextChunk]_vars

RECURSIVE Concat(_)
Concat(chunks) ==
    IF chunks = <<>> THEN <<>> ELSE Head(chunks) \o Concat(Tail(chunks))

\* C28: for every array and every chunkSize >= 1 the chunks returned by
\* chunkArray, concatenated in order, give the input; every chunk but the
\* last has exactly chunkSize elements and the last has between 1 and
\* chunkSize; an empty array gives no chunks.
C28_ChunksPartitionInput ==
    chunked.returned =>
        LET chunks == chunked.chunks
            n == Len(chunks)
        IN /\ Concat(chunks) = chunked.array
           /\ \A k \in 1..(n - 1) : Len(chunks[k]) = chunked.chunkSize
           /\ n > 0 => Len(chunks[n]) \in 1..chunked.chunkSize
           /\ chunked.array = <<>> => chunks = <<>>

\* an array was split into full chunks and a shorter last one
C28_Witness ==
    /\ chunked.returned
    /\ Len(chunked.chunks) >= 2
    /\ Len(chunked.chunks[Len(chunked.chunks)]) < chunked.chunkSize

(***************************************************************************)
(* utils/performance.ts: debounce.  The clock counts milliseconds.  Timers *)
(* are punctual: a callback runs when the clock reaches its due time,      *)
(* before time moves on and before any call made at that time, as under    *)
(* the fake timers of the tests.                                           *)
(***************************************************************************)
MaxWait == 2
MaxTime == 5
MaxUtilCalls == 3

\* the arguments the wrapped function is called with
Args == {"a", "b"}

\* clearTimeout mutated: the timer stays
clearTimeoutKeeps(timers, id) == timers

\* clearTimeout(id): the timer with this handle, if there is one, is dropped
clearTimeout(timers, id) == {t \in timers : t.id # id}

\* setTimeout(callback, delay): a timer with a handle of its own
setTimeout(timers, id, delay, args) ==
    timers \cup {[id |-> id, due |-> now + delay, args |-> args]}

\* some timer of the set has reached its due time
TimerReady(timers) == \E t \in timers : t.due <= now

\* const debounced = debounce(func, wait): `timeout` is still undefined
InitDebounce ==
    /\ ServiceInit
    /\ hook = NotRendered
    /\ list = NotRendered
    /\ throttled = NotRendered
    /\ chunked = NotRendered
    /\ modal = NotRendered
    /\ request = NotRendered
    /\ \E wait \in 0..MaxWait :
           debounced = [wait |-> wait, timeout |-> 0, timers |-> {},
                        calls |-> <<>>, executions |-> <<>>]

\* debounced(...args): clearTimeout(timeout); timeout = setTimeout(..., wait)
DebouncedCall(args) ==
    /\ Len(debounced.calls) < MaxUtilCalls
    /\ ~TimerReady(debounced.timers)
    /\ LET id == Len(debounced.calls) + 1 IN
       debounced' = [debounced EXCEPT
           !.timers = setTimeout(clearTimeout(debounced.timers,
                                              debounced.timeout),
                                 id, debounced.wait, args),
           !.timeout = id,
           !.calls = Append(debounced.calls, [at |-> now, args |-> args])]
    /\ UNCHANGED <<service, hook, list, throttled, chunked, modal, request>>

DebouncedCalls == \E args \in Args : DebouncedCall(args)

\* the timer callback: () => func(...args)
DebounceTimerFires ==
    /\ \E t \in debounced.timers :
           /\ t.due <= now
           /\ debounced' = [debounced EXCEPT
                  !.timers = debounced.timers \ {t},
                  !.executions = Append(debounced.executions,
                                        [at |-> now, args |-> t.args,
                                         after |-> Len(debounced.calls)])]
    /\ UNCHANGED <<service, hook, list, throttled, chunked, modal, request>>

\* a millisecond passes
DebounceElapse ==
    /\ now < MaxTime
    /\ ~TimerReady(debounced.timers)
    /\ now' = now + 1
    /\ UNCHANGED <<ticks, cache, pendingRequests, ops, calls, afterClear,
                   idleAtClear, lastClear, log, components>>

NextDebounce ==
    \/ DebouncedCalls
    \/ DebounceTimerFires
    \/ DebounceElapse

SpecDebounce == InitDebounce /\ [][NextDebounce]_vars

\* call k is the last of its burst: no call follows it within less than wait
LastOfBurst(k) ==
    \/ k = Len(debounced.calls)
    \/ debounced.calls[k + 1].at - debounced.calls[k].at >= debounced.wait

\* the executions of func that came after call k and before call k + 1
ExecutionsAfter(k) ==
    {i \in DOMAIN debounced.executions : debounced.executions[i].after = k}

inThrottleNever(t) == FALSE

\* if (!inThrottle): undefined before the first call, then true or false
inThrottle(t) == t.inThrottle

\* const throttled = throttle(func, limit)
InitThrottle ==
    /\ ServiceInit
    /\ hook = NotRendered
    /\ list = NotRendered
    /\ debounced = NotRendered
    /\ chunked = NotRendered
    /\ modal = NotRendered
    /\ request = NotRendered
    /\ \E limit \in 0..MaxWait :
           throttled = [limit |-> limit, inThrottle |-> FALSE, timers |-> {},
                        calls |-> <<>>, executions |-> <<>>]

\* throttled(...args): if (!inThrottle) { func(...args); inThrottle = true;
\* setTimeout(() => (inThrottle = false), limit) }
ThrottledCall(args) ==
    /\ Len(throttled.calls) < MaxUtilCalls
    /\ ~TimerReady(throttled.timers)
    /\ LET id == Len(throttled.calls) + 1
           called == [throttled EXCEPT
               !.calls = Append(throttled.calls, [at |-> now, args |-> args])]
       IN throttled' =
              IF ~inThrottle(throttled)
              THEN [called EXCEPT
                       !.executions = Append(throttled.executions,
                           [at |-> now, args |-> args, call |-> id]),
                       !.inThrottle = TRUE,
                       !.timers = setTimeout(throttled.timers, id,
                                             throttled.limit, args)]
              ELSE called
    /\ UNCHANGED <<service, hook, list, debounced, chunked, modal, request>>

ThrottledCalls == \E args \in Args : ThrottledCall(args)

\* the timer callback: () => (inThrottle = false)
ThrottleTimerFires ==
    /\ \E t \in throttled.timers :
           /\ t.due <= now
           /\ throttled' = [throttled EXCEPT
                  !.timers = throttled.timers \ {t},
                  !.inThrottle = FALSE]
    /\ UNCHANGED <<service, hook, list, debounced, chunked, modal, request>>

\* a millisecond passes
ThrottleElapse ==
    /\ now < MaxTime
    /\ ~TimerReady(throttled.timers)
    /\ now' = now + 1
    /\ UNCHANGED <<ticks, cache, pendingRequests, ops, calls, afterClear,
                   idleAtClear, lastClear, log, components>>

NextThrottle ==
    \/ ThrottledCalls
    \/ ThrottleTimerFires
    \/ ThrottleElapse

SpecThrottle == InitThrottle /\ [][NextThrottle]_vars

\* the calls that executed func
ExecutedCalls == {throttled.executions[i].call : i \in DOMAIN throttled.executions}

\* the last executed call before call k (0 if there is none)
LastExecutedBefore(k) ==
    LET earlier == {j \in ExecutedCalls : j < k} IN
    IF earlier = {} THEN 0
    ELSE CHOOSE j \in earlier : \A i \in earlier : i <= j

MaxRenders == 4
MaxHandlers == 2

\* e.key of the keydown events
KeyValues == {"Escape", "Enter", " ", "a"}

\* the identities of the functions passed as onCancel / onConfirm
Handlers == 1..MaxHandlers

\* removeEventListener mutated: the listener stays registered
removeEventListenerKeeps(listeners, id) == listeners

\* window.removeEventListener('keydown', handleKeyDown)
removeEventListener(listeners, id) == {l \in listeners : l.id # id}

\* window.addEventListener('keydown', handleKeyDown): handleKeyDown closes
\* over the onCancel and onConfirm of its render
addEventListener(listeners, id, onCancel, onConfirm) ==
    listeners \cup {[id |-> id, onCancel |-> onCancel, onConfirm |-> onConfirm]}

\* handleKeyDown(e): which of the two callbacks it invokes, and how often
handleKeyDown(key) ==
    [onCancel |-> IF key = "Escape" THEN 1 ELSE 0,
     onConfirm |-> IF key = "Enter" \/ key = " " THEN 1 ELSE 0]

\* the effect of a render: nothing if the modal is not open
useEffect(listeners, id, open, onCancel, onConfirm) ==
    IF ~open THEN listeners
    ELSE addEventListener(listeners, id, onCancel, onConfirm)

InitModal ==
    /\ ServiceInit
    /\ hook = NotRendered
    /\ list = NotRendered
    /\ debounced = NotRendered
    /\ throttled = NotRendered
    /\ chunked = NotRendered
    /\ request = NotRendered
    /\ modal = [mounted |-> FALSE, open |-> FALSE, onCancel |-> 1,
                onConfirm |-> 1, effect |-> 0, listeners |-> {},
                renders |-> 0, keydown |-> <<>>]

\* <ConfirmDeleteModal open onCancel onConfirm />: first render or re-render;
\* the effect is run again if one of [open, onCancel, onConfirm] has changed
ModalRender(open, onCancel, onConfirm) ==
    LET id == modal.renders + 1
        changed == \/ ~modal.mounted
                   \/ open # modal.open
                   \/ onCancel # modal.onCancel
                   \/ onConfirm # modal.onConfirm
    IN
    /\ modal.renders < MaxRenders
    /\ modal' = [modal EXCEPT
           !.mounted = TRUE,
           !.open = open,
           !.onCancel = onCancel,
           !.onConfirm = onConfirm,
           !.renders = id,
           !.effect = IF changed THEN id ELSE modal.effect,
           !.listeners =
               IF changed
               THEN useEffect(removeEventListener(modal.listeners, modal.effect),
                              id, open, onCancel, onConfirm)
               ELSE modal.listeners]
    /\ UNCHANGED <<service, hook, list, debounced, throttled, chunked, request>>

ModalRenders ==
    \E open \in BOOLEAN, onCancel \in Handlers, onConfirm \in Handlers :
        ModalRender(open, onCancel, onConfirm)

\* the component is removed: the cleanup of its last effect runs
ModalUnmount ==
    /\ modal.mounted
    /\ modal' = [modal EXCEPT
           !.mounted = FALSE,
           !.effect = 0,
           !.listeners = removeEventListener(modal.listeners, modal.effect)]
    /\ UNCHANGED <<service, hook, list, debounced, throttled, chunked, request>>

\* a keydown event reaches window: every registered listener handles it;
\* the latest event is kept with what it invoked
Keydown(key) ==
    /\ modal' = [modal EXCEPT
           !.keydown =
               <<[key |-> key,
                  open |-> modal.mounted /\ modal.open,
                  onCancel |-> Cardinality(modal.listeners)
                                   * handleKeyDown(key).onCancel,
                  onConfirm |-> Cardinality(modal.listeners)
                                    * handleKeyDown(key).onConfirm,
                  current |-> \A l \in modal.listeners :
                                  /\ l.onCancel = modal.onCancel
                                  /\ l.onConfirm = modal.onConfirm]>>]
    /\ UNCHANGED <<service, hook, list, debounced, throttled, chunked, request>>

Keydowns == \E key \in KeyValues : Keydown(key)

NextModal ==
    \/ ModalRenders
    \/ ModalUnmount
    \/ Keydowns

SpecModal == InitModal /\ [][NextModal]_vars

\* C29: while the modal is open each Escape keydown invokes onCancel exactly
\* once and each Enter or Space keydown invokes onConfirm exactly once, the
\* callbacks being those of the latest render; while it is not open (never
\* opened, closed again, or unmounted) no keydown invokes either callback.
C29_KeysWhileOpenOnly ==
    \A i \in DOMAIN modal.keydown :
        LET e == modal.keydown[i] IN
        IF e.open
        THEN /\ e.key = "Escape" => e.onCancel = 1
             /\ e.key \in {"Enter", " "} => e.onConfirm = 1
             /\ e.current
        ELSE e.onCancel = 0 /\ e.onConfirm = 0

\* Enter was pressed while the modal was open, after it had been closed and
\* opened again with other callbacks, and invoked onConfirm once
C29_Witness ==
    /\ modal.keydown # <<>>
    /\ modal.keydown[1].open
    /\ modal.keydown[1].key = "Enter"
    /\ modal.keydown[1].onConfirm = 1
    /\ modal.keydown[1].onCancel = 0
    /\ modal.renders >= 3
    /\ modal.onConfirm # 1

(***************************************************************************)
(* hooks/useUsers.ts: the hook over the service.  fetchUsers runs up to    *)
(* its await inside the task that called it (the mount effect, a refetch); *)
(* its continuation is a microtask that runs once the getUsers() call has  *)
(* settled.                                                                *)
(***************************************************************************)
MaxFetches == 3

FETCH_FAILED == "Failed to fetch users"

\* if (response.error): null and the empty string are falsy
TruthyError(e) == e # NoError /\ e[1] # ""

\* const [users, setUsers] = useState([]); loading true; error null
useUsers ==
    /\ hook = NotRendered
    /\ hook' = [users |-> JArray(<<>>), loading |-> TRUE, error |-> NoError,
                runs |-> <<>>]
    /\ UNCHANGED <<service, list, debounced, throttled, chunked, modal, request>>

\* fetchUsers mutated: loading is not set when a fetch starts
fetchUsersKeepsLoading ==
    /\ Len(calls) < MaxFetches
    /\ hook' = [hook EXCEPT
           !.error = NoError,
           !.runs = Append(hook.runs, [call |-> Len(calls) + 1, pc |-> "await"])]
    /\ makeCachedRequest(USERS, UsersKey)
    /\ UNCHANGED <<list, debounced, throttled, chunked, modal, request>>

\* fetchUsers up to `await apiService.getUsers()`
fetchUsers ==
    /\ Len(calls) < MaxFetches
    /\ hook' = [hook EXCEPT
           !.loading = TRUE,
           !.error = NoError,
           !.runs = Append(hook.runs, [call |-> Len(calls) + 1, pc |-> "await"])]
    /\ makeCachedRequest(USERS, UsersKey)
    /\ UNCHANGED <<list, debounced, throttled, chunked, modal, request>>

\* every fetchUsers whose getUsers() call has settled has run on
HookDrained ==
    hook # NotRendered =>
        \A r \in DOMAIN hook.runs :
            hook.runs[r].pc = "await" => calls[hook.runs[r].call].pc = "await"

\* useEffect(() => { fetchUsers() }, [fetchUsers]): once, after the first render
MountEffect ==
    /\ hook # NotRendered
    /\ hook.runs = <<>>
    /\ fetchUsers

\* refetch(), from an event handler
refetch ==
    /\ hook # NotRendered
    /\ hook.runs # <<>>
    /\ MicrotasksDrained
    /\ HookDrained
    /\ fetchUsers

\* the try block after the await: if (response.error) { setError; return }
\* if (response.data) setUsers(response.data)
AfterAwait(h, response) ==
    IF TruthyError(response.error) THEN [h EXCEPT !.error = response.error]
    ELSE IF Truthy(response.data) THEN [h EXCEPT !.users = response.data]
    ELSE h

\* the rest of fetchUsers: the try block or, if the call rejected, the catch
\* clause; then the finally block
FetchUsersResume(r) ==
    LET c == hook.runs[r].call
        h == IF calls[c].pc = "done"
             THEN AfterAwait(hook, calls[c].result[1])
             ELSE [hook EXCEPT !.error = <<FETCH_FAILED>>]
    IN
    /\ hook.runs[r].pc = "await"
    /\ calls[c].pc # "await"
    /\ \A q \in 1..(r - 1) : hook.runs[q].pc = "done"
    /\ hook' = [h EXCEPT !.loading = FALSE, !.runs[r].pc = "done"]
    /\ UNCHANGED <<service, list, debounced, throttled, chunked, modal, request>>

HookResume ==
    /\ hook # NotRendered
    /\ \E r \in DOMAIN hook.runs : FetchUsersResume(r)

NextHook ==
    \/ useUsers
    \/ MountEffect
    \/ refetch
    \/ HookResume
    \/ Resume
    \/ (FetchSettlesWide /\ HookDrained)
    \/ (TimerFires /\ HookDrained)
    \/ (Tick /\ HookDrained)

SpecHook == Init /\ [][NextHook]_vars

\* this step is the continuation of run r of fetchUsers
Continues(r) ==
    /\ hook # NotRendered
    /\ r \in DOMAIN hook.runs
    /\ hook.runs[r].pc = "await"
    /\ hook'.runs[r].pc = "done"

\* the Result that the getUsers() call of run r settled with
ResponseOf(r) == calls[hook.runs[r].call].result[1]

\* this step starts a run of fetchUsers
StartsRun ==
    /\ hook # NotRendered
    /\ Len(hook'.runs) = Len(hook.runs) + 1

\* C23: when the getUsers() call of a fetch settles with a non-null error,
\* the hook ends with that error, loading false and users unchanged; the
\* error is cleared only by the start of the next fetch.
C23_Step ==
    /\ \A r \in 1..MaxFetches :
           (Continues(r) /\ ResponseOf(r).error # NoError) =>
               /\ hook'.error = ResponseOf(r).error
               /\ ~hook'.loading
               /\ hook'.users = hook.users
    /\ (hook # NotRendered /\ hook.error # NoError /\ hook'.error = NoError)
           => StartsRun

C23_ErrorIsKept == [][C23_Step]_vars

\* C24: the hook starts with loading true and its mount effect issues one
\* getUsers() call; loading becomes false only in the continuation of a
\* fetch whose call has settled; if the call of the first fetch settled with
\* non-null data, users is that data and error is null.
C24_Step ==
    /\ (hook = NotRendered /\ hook' # NotRendered) =>
           (hook'.loading /\ calls' = calls)
    /\ (hook # NotRendered /\ hook.runs = <<>> /\ hook'.runs # <<>>) =>
           /\ Len(calls') = Len(calls) + 1
           /\ calls'[Len(calls')].url = USERS
           /\ hook'.loading
    /\ (hook # NotRendered /\ hook.loading /\ ~hook'.loading) =>
           \E r \in DOMAIN hook.runs :
               Continues(r) /\ calls[hook.runs[r].call].pc = "done"
    /\ (Continues(1) /\ ResponseOf(1).data # Null) =>
           /\ hook'.users = ResponseOf(1).data
           /\ hook'.error = NoError

C24_LoadsOnMount == [][C24_Step]_vars

\* C25: each refetch() sets loading true, clears error and issues a new
\* getUsers() call; when that call has settled with non-null data, users is
\* the data it returned.
C25_Step ==
    /\ (StartsRun /\ hook.runs # <<>>) =>
           /\ hook'.loading
           /\ hook'.error = NoError
           /\ Len(calls') = Len(calls) + 1
           /\ calls'[Len(calls')].url = USERS
           /\ hook'.runs[Len(hook'.runs)].call = Len(calls')
    /\ \A r \in 2..MaxFetches :
           (Continues(r) /\ ResponseOf(r).data # Null) =>
               hook'.users = ResponseOf(r).data

C25_RefetchReplaces == [][C25_Step]_vars

(***************************************************************************)
(* components/UserList.tsx: the list keeps its own copy of the users it    *)
(* was first rendered with and deletes from that copy.  Users are their    *)
(* ids; 0 stands for no user (null).                                       *)
(***************************************************************************)
DELETED_MSG_MS == 1800

MaxListLen == 3
MaxUserId == 2

\* the filter mutated: only the first user with the id is removed
RECURSIVE WithoutFirstUser(_, _)
WithoutFirstUser(users, id) ==
    IF users = <<>> THEN <<>>
    ELSE IF Head(users) = id THEN Tail(users)
    ELSE <<Head(users)>> \o WithoutFirstUser(Tail(users), id)

\* prev.filter(u => u.id !== userToDelete.id)
WithoutUser(users, id) ==
    LET Keep(u) == u # id IN SelectSeq(users, Keep)

\* the six state cells after the first render with the prop users, the
\* message timers, and the handler that ran last
UserListState(initialUsers) ==
    [initialUsers |-> initialUsers,
     users |-> initialUsers,
     selectedUser |-> 0,
     isModalOpen |-> FALSE,
     deletedMsg |-> <<>>,
     confirmOpen |-> FALSE,
     userToDelete |-> 0,
     timers |-> {},
     last |-> "none"]

\* <UserList users={users} />: useState(initialUsers), rendered with the data
\* of a getUsers() call that has settled
UserList ==
    /\ list = NotRendered
    /\ MicrotasksDrained
    /\ \E c \in CallIds :
           /\ calls[c].pc = "done"
           /\ calls[c].result[1].data.type = "array"
           /\ list' = UserListState(calls[c].result[1].data.items)
    /\ UNCHANGED <<service, hook, debounced, throttled, chunked, modal, request>>

\* the delete button of a row: setUserToDelete(user); setConfirmOpen(true)
handleDeleteUser ==
    /\ list # NotRendered
    /\ MicrotasksDrained
    /\ \E i \in DOMAIN list.users :
           list' = [list EXCEPT !.userToDelete = list.users[i],
                                !.confirmOpen = TRUE,
                                !.last = "handleDeleteUser"]
    /\ UNCHANGED <<service, hook, debounced, throttled, chunked, modal, request>>

\* what handleConfirmDelete does to the list's state
ConfirmedDelete ==
    LET closed == [list EXCEPT !.confirmOpen = FALSE, !.userToDelete = 0,
                               !.last = "handleConfirmDelete"] IN
    IF list.userToDelete # 0
    THEN [closed EXCEPT
             !.users = WithoutUser(list.users, list.userToDelete),
             !.deletedMsg = <<"User deleted">>,
             !.timers = list.timers \cup {now + DELETED_MSG_MS}]
    ELSE closed

\* handleConfirmDelete mutated: the deletion also drops the cached user list
handleConfirmDeleteInvalidates ==
    /\ list # NotRendered
    /\ MicrotasksDrained
    /\ list.confirmOpen
    /\ list' = ConfirmedDelete
    /\ cache' = MapDelete(cache, UsersKey)
    /\ UNCHANGED <<now, ticks, pendingRequests, ops, calls, afterClear,
                   idleAtClear, lastClear, log>>
    /\ UNCHANGED <<hook, debounced, throttled, chunked, modal, request>>

\* onConfirm of the confirmation modal, which is shown while confirmOpen
handleConfirmDelete ==
    /\ list # NotRendered
    /\ MicrotasksDrained
    /\ list.confirmOpen
    /\ list' = ConfirmedDelete
    /\ UNCHANGED <<service, hook, debounced, throttled, chunked, modal, request>>

\* onCancel of the confirmation modal
handleCancelDelete ==
    /\ list # NotRendered
    /\ MicrotasksDrained
    /\ list.confirmOpen
    /\ list' = [list EXCEPT !.confirmOpen = FALSE, !.userToDelete = 0,
                            !.last = "handleCancelDelete"]
    /\ UNCHANGED <<service, hook, debounced, throttled, chunked, modal, request>>

\* the timer callback: () => setDeletedMsg(null)
DeletedMsgTimerFires ==
    /\ list # NotRendered
    /\ MicrotasksDrained
    /\ \E due \in list.timers :
           /\ due <= now
           /\ list' = [list EXCEPT !.timers = list.timers \ {due},
                                   !.deletedMsg = <<>>]
    /\ UNCHANGED <<service, hook, debounced, throttled, chunked, modal, request>>

NextList ==
    \/ getUsers
    \/ Resume
    \/ Joined
    \/ FetchSettles
    \/ TimerFires
    \/ Tick
    \/ UserList
    \/ handleDeleteUser
    \/ handleConfirmDelete
    \/ handleCancelDelete
    \/ DeletedMsgTimerFires

SpecList == Init /\ [][NextList]_vars

\* the users that the list has deleted from its copy
Deleted ==
    IF list = NotRendered THEN {}
    ELSE {list.initialUsers[i] : i \in DOMAIN list.initialUsers}
             \ {list.users[i] : i \in DOMAIN list.users}

\* the cache holds, unexpired, the user list that the list was rendered with
CachedListIsFresh ==
    /\ list # NotRendered
    /\ UsersKey \in DOMAIN cache
    /\ ~isExpired(cache[UsersKey], now)
    /\ cache[UsersKey].data = JArray(list.initialUsers)

\* a step that changes the list's copy of the users changes nothing else: no
\* call, no request, no cache entry; and a getUsers() call made after a
\* deletion while the cached list is fresh is answered with that list, the
\* deleted users included, without a request
C22_Step ==
    /\ (list # NotRendered /\ list' # NotRendered /\ list'.users # list.users) =>
           /\ cache' = cache
           /\ ops' = ops
           /\ pendingRequests' = pendingRequests
           /\ calls' = calls
    /\ (Deleted # {} /\ CachedListIsFresh /\ Len(calls') = Len(calls) + 1) =>
           LET c == calls'[Len(calls')] IN
           /\ c.role = "hit"
           /\ c.pc = "done"
           /\ ops' = ops
           /\ c.result[1].data.type = "array"
           /\ Deleted \subseteq {c.result[1].data.items[i] :
                                    i \in DOMAIN c.result[1].data.items}

\* C22: confirming a deletion changes only the list component's own state;
\* it issues no network request and leaves the cache entry for "users"
\* unchanged, so a later getUsers() within the TTL still returns the deleted
\* user.
C22_DeletionIsLocal == [][C22_Step]_vars

\* a user was deleted from the list and a getUsers() call made afterwards
\* was answered from the cache with a list that still contains the user
C22_Witness ==
    /\ Deleted # {}
    /\ calls # <<>>
    /\ LET c == calls[Len(calls)] IN
       /\ c.role = "hit"
       /\ c.result[1].data = JArray(list.initialUsers)
       /\ Len(list.users) < Len(list.initialUsers)

\* key has an entry whose age is more than the TTL
Stale(key) ==
    /\ key \in DOMAIN cache
    /\ now - cache[key].timestamp > CACHE_DURATION

\* a step of clearCache() or clearCacheEntry(key): entries go, nothing else
\* changes
Invalidates ==
    /\ calls' = calls
    /\ ops' = ops
    /\ pendingRequests' = pendingRequests
    /\ DOMAIN cache' \subseteq DOMAIN cache
    /\ \A k \in DOMAIN cache' : cache'[k] = cache[k]

\* an entry of age exactly the TTL is served; an entry older than the TTL is
\* left alone by every step but a call for its key, which deletes it and no
\* other entry and goes on as after a miss (joins or starts a request), and
\* an explicit invalidation
C31_Step ==
    /\ CallMade =>
           LET key == TheCall.key IN
           (key \in DOMAIN cache /\ now - cache[key].timestamp = CACHE_DURATION)
           => /\ TheCall.role = "hit"
              /\ TheCall.result = <<ApiResponse(cache[key].data, NoError)>>
              /\ cache' = cache
    /\ \A k \in Keys :
           (Stale(k) /\ (k \notin DOMAIN cache' \/ cache'[k] # cache[k])) =>
               \/ /\ CallMade
                  /\ TheCall.key = k
                  /\ TheCall.role \in {"join", "start"}
                  /\ TheCall.pc = "await"
                  /\ cache' = MapDelete(cache, k)
               \/ Invalidates
    /\ \A k \in Keys :
           (Stale(k) /\ CallMade /\ TheCall.key = k) => k \notin DOMAIN cache'

\* C31: an entry whose age is exactly the TTL is still served; an entry older
\* than the TTL stays in the store until the next lookup of its key (or an
\* explicit invalidation), and that lookup deletes this entry and only this
\* entry and then proceeds as a cache miss.
C31_LazyExpiry == [][C31_Step]_vars

\* a call found an entry of age exactly the TTL and was answered from it
C31_Witness ==
    \E c \in CallIds :
        /\ calls[c].role = "hit"
        /\ calls[c].age = CACHE_DURATION
        /\ calls[c].key \in DOMAIN cache

\* a retrying operation has settled and the call that started it has not yet
\* run on
SettledNotResumed ==
    \E c \in CallIds :
        /\ calls[c].role = "start"
        /\ calls[c].pc = "await"
        /\ Finished(calls[c].op)

\* the step stores an entry under key k
Stores(k) ==
    /\ k \in DOMAIN cache'
    /\ (k \notin DOMAIN cache \/ cache'[k] # cache[k])

\* an entry is stored only by the continuation of the call that started a
\* request, with the data that the request settled with and the time of
\* that step; no time passes between the settlement and that step
C32_Step ==
    /\ \A k \in Keys :
           Stores(k) =>
               \E c \in CallIds :
                   /\ calls[c].key = k
                   /\ calls[c].role = "start"
                   /\ calls[c].pc = "await"
                   /\ calls'[c].pc = "done"
                   /\ Finished(calls[c].op)
                   /\ cache'[k] = [data |-> ops[calls[c].op].result[1].data,
                                   timestamp |-> now]
    /\ SettledNotResumed => now' = now

\* C32: the timestamp of a cache entry is the time at which its retrying
\* operation settled, after all attempts and backoff waits, not the time
\* the call was made; each successful request stores a new entry with the
\* new value and a new timestamp under its key.
C32_StampedAtSettlement == [][C32_Step]_vars

\* a call made at time 0 failed its first attempt at once, waited for the
\* backoff timer while a TTL passed, and the data of its second attempt was
\* stored with the later time
C32_Witness ==
    \E c \in CallIds :
        /\ calls[c].role = "start"
        /\ calls[c].pc = "done"
        /\ ops[calls[c].op].fetches = 2
        /\ ops[calls[c].op].waits = <<DEFAULT_DELAY>>
        /\ calls[c].key \in DOMAIN cache
        /\ cache[calls[c].key].timestamp = CACHE_DURATION
        /\ cache[calls[c].key].data = calls[c].result[1].data

(***************************************************************************)
(* makeRequest on its own: the second argument of fetch().  An object is a *)
(* function from its property names to their values.                       *)
(***************************************************************************)
\* {...a, ...b}: the properties of a, then those of b over them
Spread(a, b) ==
    [k \in DOMAIN a \cup DOMAIN b |-> IF k \in DOMAIN b THEN b[k] ELSE a[k]]

HeaderNames == {"Content-Type", "Authorization", "Accept"}
HeaderValues == {"application/json", "text/plain"}

\* the header objects a caller can supply
HeaderSets == UNION {[names -> HeaderValues] : names \in SUBSET HeaderNames}

\* the options a caller can pass: with or without headers, with or without
\* a method
OptionSets ==
    LET none == [k \in {} |-> ""]
        WithMethod == {none} \cup {[method |-> m] : m \in {"GET", "POST"}}
    IN WithMethod
           \cup {Spread(o, [headers |-> h]) : o \in WithMethod, h \in HeaderSets}

\* {'Content-Type': 'application/json'}
DefaultHeaders == [k \in {"Content-Type"} |-> "application/json"]

\* ...options.headers: nothing when options has no headers
OptionHeaders(options) ==
    IF "headers" \in DOMAIN options THEN options.headers
    ELSE [k \in {} |-> ""]

\* { headers: { 'Content-Type': 'application/json', ...options.headers },
\*   ...options }
fetchInit(options) ==
    Spread([headers |-> Spread(DefaultHeaders, OptionHeaders(options))],
           options)

InitRequest ==
    /\ ServiceInit
    /\ hook = NotRendered
    /\ list = NotRendered
    /\ debounced = NotRendered
    /\ throttled = NotRendered
    /\ chunked = NotRendered
    /\ modal = NotRendered
    /\ \E options \in OptionSets :
           request = [options |-> options, sent |-> FALSE,
                      init |-> [k \in {} |-> ""]]

\* makeRequest(url, options) up to its call of fetch(url, init)
MakeRequestFetch ==
    /\ ~request.sent
    /\ request' = [request EXCEPT !.sent = TRUE,
                                  !.init = fetchInit(request.options)]
    /\ UNCHANGED <<service, hook, list, debounced, throttled, chunked, modal>>

NextRequest == MakeRequestFetch

SpecRequest == InitRequest /\ [][NextRequest]_vars

\* C33: for every set H of headers that the caller passes, the headers sent
\* are {Content-Type: application/json} merged with H, H winning on a shared
\* name; Content-Type: application/json is sent when H has no Content-Type.
C33_HeadersMerged ==
    (request.sent /\ "headers" \in DOMAIN request.options) =>
        LET H == request.options.headers IN
        /\ request.init.headers = Spread(DefaultHeaders, H)
        /\ "Content-Type" \notin DOMAIN H =>
               /\ "Content-Type" \in DOMAIN request.init.headers
               /\ request.init.headers["Content-Type"] = "application/json"

(***************************************************************************)
(* components/UserList.tsx: the rows, the details modal and the delete     *)
(* flow of a list rendered with any users                                  *)
(***************************************************************************)
\* the users prop: any users, two of them may carry the same id
UserLists == UNION {[1..n -> 1..MaxUserId] : n \in 0..MaxListLen}

\* if (e) e.stopPropagation(): the click stays in the button when the
\* handler got the event
Stopped(e) == e

\* setSelectedUser(user); setIsModalOpen(true)
RowClicked(l, user) ==
    [l EXCEPT !.selectedUser = user, !.isModalOpen = TRUE,
              !.last = "handleRowClick"]

\* onClick of a table row
handleRowClick ==
    /\ list # NotRendered
    /\ MicrotasksDrained
    /\ \E i \in DOMAIN list.users : list' = RowClicked(list, list.users[i])
    /\ UNCHANGED <<service, hook, debounced, throttled, chunked, modal, request>>

\* onClose of the details modal
handleCloseModal ==
    /\ list # NotRendered
    /\ MicrotasksDrained
    /\ list.isModalOpen
    /\ list' = [list EXCEPT !.isModalOpen = FALSE, !.selectedUser = 0,
                            !.last = "handleCloseModal"]
    /\ UNCHANGED <<service, hook, debounced, throttled, chunked, modal, request>>

\* a click on the delete button of a row: onClick={(e) =>
\* handleDeleteUser(user, e)}, and the row's onClick when the click bubbles
DeleteButtonClick ==
    /\ list # NotRendered
    /\ MicrotasksDrained
    /\ \E i \in DOMAIN list.users :
           LET user == list.users[i]
               pressed == [list EXCEPT !.userToDelete = user,
                                       !.confirmOpen = TRUE,
                                       !.last = "handleDeleteUser"]
           IN list' = IF Stopped(TRUE) THEN pressed
                      ELSE RowClicked(pressed, user)
    /\ UNCHANGED <<service, hook, debounced, throttled, chunked, modal, request>>

InitRows ==
    /\ ServiceInit
    /\ hook = NotRendered
    /\ list \in {UserListState(users) : users \in UserLists}
    /\ debounced = NotRendered
    /\ throttled = NotRendered
    /\ chunked = NotRendered
    /\ modal = NotRendered
    /\ request = NotRendered

NextRows ==
    \/ handleRowClick
    \/ handleCloseModal
    \/ DeleteButtonClick
    \/ handleConfirmDelete
    \/ handleCancelDelete
    \/ DeletedMsgTimerFires
    \/ Tick

SpecRows == InitRows /\ [][NextRows]_vars

\* next is users without every user that has the id, the others in their
\* order
IsWithout(next, users, id) ==
    LET keep == {i \in DOMAIN users : users[i] # id}
        Nth(k) == CHOOSE i \in keep : Cardinality({j \in keep : j < i}) = k - 1
    IN /\ Len(next) = Cardinality(keep)
       /\ \A k \in DOMAIN next : next[k] = users[Nth(k)]

\* the step sets the user to delete: a click on a delete button
SelectsForDeletion ==
    /\ list'.confirmOpen
    /\ ~list.confirmOpen \/ list'.userToDelete # list.userToDelete

\* C34: a confirmation removes from the list exactly the users whose id is
\* the selected user's id and keeps the others in their order, a
\* cancellation leaves the list as it is, both close the confirmation dialog
\* and clear the selected user, and a click on a row's delete button leaves
\* the details modal as it was, so never opens it.
C34_Step ==
    /\ (list.confirmOpen /\ list' # list
        /\ list'.last = "handleConfirmDelete") =>
           /\ IsWithout(list'.users, list.users, list.userToDelete)
           /\ ~list'.confirmOpen
           /\ list'.userToDelete = 0
    /\ (list.confirmOpen /\ list' # list
        /\ list'.last = "handleCancelDelete") =>
           /\ list'.users = list.users
           /\ ~list'.confirmOpen
           /\ list'.userToDelete = 0
    /\ SelectsForDeletion =>
           /\ list'.isModalOpen = list.isModalOpen
           /\ list'.selectedUser = list.selectedUser

C34_DeleteFlow == [][C34_Step]_vars

\* a list of three users, two of them with the same id, has lost both to one
\* confirmed deletion, and the details modal is closed
C34_Witness ==
    /\ list.last = "handleConfirmDelete"
    /\ list.initialUsers = <<1, 2, 1>>
    /\ list.users = <<2>>
    /\ ~list.isModalOpen

\* C35: for every key, whenever the pending table holds an entry for the
\* key, the cache holds no entry for that key: in no state between two steps
\* does a key have both a cache entry and a pending operation.
C35_PendingExcludesCached ==
    \A key \in DOMAIN pendingRequests : key \notin DOMAIN cache

\* a key whose data was stored by a first call and has expired is pending
\* again: the lookup of the second call has deleted the expired entry
C35_Witness ==
    \E key \in DOMAIN pendingRequests :
        /\ key \notin DOMAIN cache
        /\ \E c \in CallIds :
               /\ calls[c].key = key
               /\ calls[c].role = "start"
               /\ calls[c].pc = "done"
               /\ Truthy(calls[c].result[1].data)

(***************************************************************************)
(* getUsers with both invalidations recorded: afterClear holds the keys    *)
(* invalidated since their last call, idleAtClear those of them that had   *)
(* no operation pending when they were invalidated.                        *)
(***************************************************************************)
\* clearCacheEntry(key), recorded
clearCacheEntryTracked ==
    \E key \in Keys :
        /\ cache' = MapDelete(cache, key)
        /\ afterClear' = afterClear \cup {key}
        /\ idleAtClear' = IF key \in DOMAIN pendingRequests
                          THEN idleAtClear \ {key}
                          ELSE idleAtClear \cup {key}
        /\ UNCHANGED <<components, now, ticks, pendingRequests, ops, calls,
                       lastClear, log>>

NextClears ==
    \/ getUsers
    \/ Resume
    \/ Joined
    \/ FetchSettles
    \/ TimerFires
    \/ Tick
    \/ (clearCache /\ ClearTracked)
    \/ clearCacheEntryTracked

SpecClears == Init /\ [][NextClears]_vars

\* the key was invalidated while an operation for it was pending, and no
\* call for the key has been made since
ClearedInFlight(key) == key \in afterClear \ idleAtClear

\* C36: when the call that started an operation settles with data after an
\* invalidation of its key (clearCache or clearCacheEntry) that ran while the
\* operation was pending, the data is stored with the time of the settlement
\* and no request is issued; and the first call for the key made while that
\* entry is no older than the TTL is served from it without a new request.
C36_Step ==
    /\ \A c \in CallIds :
           (/\ Settles(c)
            /\ calls[c].role = "start"
            /\ ClearedInFlight(calls[c].key)
            /\ Truthy(calls'[c].result[1].data))
           => /\ calls[c].key \in DOMAIN cache'
              /\ cache'[calls[c].key] =
                     [data |-> calls'[c].result[1].data, timestamp |-> now]
              /\ ops' = ops
    /\ (/\ CallMade
        /\ ClearedInFlight(TheCall.key)
        /\ TheCall.key \in DOMAIN cache
        /\ now - cache[TheCall.key].timestamp <= CACHE_DURATION)
       => /\ TheCall.role = "hit"
          /\ TheCall.result = <<ApiResponse(cache[TheCall.key].data, NoError)>>
          /\ ops' = ops

Continued(c) == calls[c].pc = "await" /\ calls'[c].pc # "await"

\* C37: the one step in which the call that started an operation continues
\* stores the operation's data if it ended with data and writes nothing
\* otherwise, and removes from the pending table the entry of that operation
\* and no other; the cache gets an entry and the pending table loses one in
\* such steps only, so never in a step in which only joined calls continue.
\* A call continues once, so that is one write per operation that ends with
\* data and one removal per operation, both by the starting call.
C37_Step ==
    /\ \A c \in CallIds :
           (calls[c].role = "start" /\ Continued(c)) =>
               LET key == calls[c].key IN
               /\ IF calls'[c].pc = "done" /\ Truthy(calls'[c].result[1].data)
                  THEN /\ Stores(key)
                       /\ \A k \in Keys \ {key} : ~Stores(k)
                  ELSE cache' = cache
               /\ key \in DOMAIN pendingRequests
               /\ pendingRequests[key] = calls[c].op
               /\ pendingRequests' = MapDelete(pendingRequests, key)
    /\ \A k \in Keys :
           (Stores(k) \/ (k \in DOMAIN pendingRequests
                          /\ k \notin DOMAIN pendingRequests')) =>
               \E c \in CallIds :
                   /\ calls[c].role = "start"
                   /\ calls[c].key = k
                   /\ Continued(c)
    /\ (\A c \in CallIds : Continued(c) => calls[c].role = "join") =>
           /\ \A k \in Keys : ~Stores(k)
           /\ DOMAIN pendingRequests \subseteq DOMAIN pendingRequests'

C37_OneWriteOneRemoval == [][C37_Step]_vars

\* an operation with a joined call has ended with data for both: its data is
\* in the cache and its pending entry is gone
C37_Witness ==
    \E c1, c2 \in CallIds :
        /\ calls[c1].role = "start"
        /\ calls[c2].role = "join"
        /\ calls[c2].op = calls[c1].op
        /\ calls[c1].pc = "done"
        /\ calls[c2].pc = "done"
        /\ Truthy(calls[c1].result[1].data)
        /\ calls[c1].key \in DOMAIN cache
        /\ cache[calls[c1].key].data = calls[c1].result[1].data
        /\ calls[c1].key \notin DOMAIN pendingRequests

\* the runs of fetchUsers whose getUsers() call has not settled
UnsettledFetches ==
    IF hook = NotRendered THEN {}
    ELSE {r \in DOMAIN hook.runs : calls[hook.runs[r].call].pc = "await"}

FellThrough(o) ==
    /\ ops[o].phase = "settled"
    /\ ops[o].attempt > ops[o].maxRetries

\* C39: a retrying operation with the default maxRetries of 3 never returns
\* the fallback after the loop: an operation with maxRetries >= 1 that has
\* returned did so inside the loop, with the Result of its latest attempt;
\* the fallback {data: null, error: "Network error occurred"} is returned
\* only by an operation with maxRetries < 1, which makes no attempt.
C39_FallbackOnlyBelowOne ==
    \A o \in OpIds :
        /\ ops[o].maxRetries = DEFAULT_MAX_RETRIES => ~FellThrough(o)
        /\ (ops[o].phase = "settled" /\ ops[o].maxRetries >= 1) =>
               /\ ~FellThrough(o)
               /\ log # <<>>
               /\ ops[o].result = <<log[Len(log)].result>>
        /\ FellThrough(o) =>
               /\ ops[o].maxRetries < 1
               /\ ops[o].fetches = 0
               /\ ops[o].result = <<Failure(NETWORK_ERROR)>>
        /\ ops[o].maxRetries < 1 => FellThrough(o)

\* an operation with the default three attempts has returned, inside the
\* loop, the failure of its third attempt, a rejected network call
C39_Witness ==
    \E o \in OpIds :
        /\ ops[o].maxRetries = DEFAULT_MAX_RETRIES
        /\ ops[o].phase = "settled"
        /\ ops[o].attempt = DEFAULT_MAX_RETRIES
        /\ ops[o].fetches = DEFAULT_MAX_RETRIES
        /\ ops[o].result = <<Failure("Network down")>>

(***************************************************************************)
(* utils/performance.ts: the loop of chunkArray, one iteration a step, for *)
(* any integer chunkSize.  The chunks are counted up to MaxPushes; no      *)
(* call with chunkSize >= 1 pushes that many.                              *)
(***************************************************************************)
MaxPushes == 5
MaxNegChunk == 1

Max(a, b) == IF a >= b THEN a ELSE b

\* the index that slice makes of an argument: a negative one counts from
\* the end, and both are kept within the array
RelativeIndex(x, len) == IF x < 0 THEN Max(len + x, 0) ELSE Min(x, len)

\* array.slice(start, end) for any integers start and end
sliceRelative(array, start, end) ==
    SubSeq(array, RelativeIndex(start, Len(array)) + 1,
                  RelativeIndex(end, Len(array)))

InitChunkLoop ==
    /\ ServiceInit
    /\ hook = NotRendered
    /\ list = NotRendered
    /\ debounced = NotRendered
    /\ throttled = NotRendered
    /\ modal = NotRendered
    /\ request = NotRendered
    /\ \E array \in Arrays, chunkSize \in (0 - MaxNegChunk)..MaxChunkSize :
           chunked = [array |-> array, chunkSize |-> chunkSize, i |-> 0,
                      chunks |-> <<>>, returned |-> FALSE]

\* i < array.length: chunks.push(array.slice(i, i + chunkSize)); i += chunkSize
ChunkLoopIterate ==
    /\ ~chunked.returned
    /\ chunked.i < Len(chunked.array)
    /\ Len(chunked.chunks) < MaxPushes
    /\ chunked' = [chunked EXCEPT
           !.chunks = Append(@, sliceRelative(chunked.array, chunked.i,
                                              chunked.i + chunked.chunkSize)),
           !.i = @ + chunked.chunkSize]
    /\ UNCHANGED <<service, hook, list, debounced, throttled, modal, request>>

\* the loop condition is false: return chunks
ChunkLoopReturn ==
    /\ ~chunked.returned
    /\ ~(chunked.i < Len(chunked.array))
    /\ chunked' = [chunked EXCEPT !.returned = TRUE]
    /\ UNCHANGED <<service, hook, list, debounced, throttled, modal, request>>

NextChunkLoop ==
    \/ ChunkLoopIterate
    \/ ChunkLoopReturn

\* a call that has begun runs on: the loop is synchronous code
SpecChunkLoop ==
    InitChunkLoop /\ [][NextChunkLoop]_vars /\ WF_vars(NextChunkLoop)

\* C40: chunkArray terminates for every array and every integer chunkSize,
\* a chunkSize of 0 or less with a non-empty array included: every iteration
\* of the loop moves i towards array.length, and every call returns.
C40_Terminates ==
    /\ [][Len(chunked'.chunks) > Len(chunked.chunks)
              => chunked'.i > chunked.i]_vars
    /\ <>chunked.returned

====
